---- MODULE Spec2Model ----
(***************************************************************************)
(* Model of the Multilead MCP server (server.py): the configuration        *)
(* holder, the request gateway MultileadClient.request and the tools that  *)
(* call it.                                                                *)
(*                                                                         *)
(* Text is modelled as a sequence of tokens.  The slash "/" is always a    *)
(* token of its own, so stripping slashes works on tokens as it works on   *)
(* characters; an f-string is the concatenation of its parts.              *)
(***************************************************************************)
EXTENDS Integers, Sequences, FiniteSets, TLC

(***************************************************************************)
(* Bounds of the model.                                                    *)
(***************************************************************************)
\* number of tool invocations that may be in flight together
NCalls == 2

\* number of tool invocations made in one run
MaxCalls == 2

Calls == 1..NCalls

(***************************************************************************)
(* Text helpers: str.lstrip("/"), str.rstrip("/"), str(int), int(str).     *)
(***************************************************************************)
RECURSIVE LStripSlash(_)
LStripSlash(s) ==
    IF s # <<>> /\ Head(s) = "/" THEN LStripSlash(Tail(s)) ELSE s

RECURSIVE RStripSlash(_)
RStripSlash(s) ==
    IF s # <<>> /\ s[Len(s)] = "/" THEN RStripSlash(SubSeq(s, 1, Len(s) - 1)) ELSE s

Digits == <<"0", "1", "2", "3", "4", "5", "6", "7", "8", "9">>

RECURSIVE NatToStr(_)
NatToStr(n) ==
    IF n < 10 THEN <<Digits[n + 1]>>
    ELSE NatToStr(n \div 10) \o <<Digits[(n % 10) + 1]>>

\* str(n) of a Python int
IntToStr(n) == IF n < 0 THEN <<"-">> \o NatToStr(0 - n) ELSE NatToStr(n)

DigitValue(d) == CHOOSE i \in 0..9 : Digits[i + 1] = d

IsDigit(d) == \E i \in 1..10 : Digits[i] = d

RECURSIVE DigitsToNat(_, _)
DigitsToNat(s, acc) ==
    IF s = <<>> THEN acc
    ELSE DigitsToNat(Tail(s), acc * 10 + DigitValue(Head(s)))

\* TRUE when sub occurs in s as a contiguous run of tokens
Contains(s, sub) ==
    \E i \in 1..(Len(s) - Len(sub) + 1) : SubSeq(s, i, i + Len(sub) - 1) = sub

(***************************************************************************)
(* Configuration holder: MultileadConfig.__init__ reads the environment.   *)
(* An environment is a function from the names that are set to their text. *)
(***************************************************************************)
\* the value of an attribute that is None
None == <<"<None>">>

\* Python truthiness of an Optional[str]
Truthy(x) == x # None /\ x # <<>>

\* os.getenv(name) and os.getenv(name, default)
Getenv(e, name, default) == IF name \in DOMAIN e THEN e[name] ELSE default

DefaultBaseUrl ==
    <<"https://api.multilead.io", "/", "api", "/", "open-api", "/", "v1">>

DefaultTimeout == <<"3", "0">>

\* int(text): an optional sign followed by at least one digit, else ValueError
PyInt(s) ==
    LET neg  == s # <<>> /\ Head(s) = "-"
        body == IF s # <<>> /\ Head(s) \in {"-", "+"} THEN Tail(s) ELSE s
    IN  IF body # <<>> /\ \A i \in 1..Len(body) : IsDigit(body[i])
        THEN [ok |-> TRUE,
              val |-> IF neg THEN 0 - DigitsToNat(body, 0) ELSE DigitsToNat(body, 0)]
        ELSE [ok |-> FALSE, val |-> 0]

\* str.lower() on the tokens the debug setting and str(bool) are drawn from
Lower(s) ==
    [i \in 1..Len(s) |-> CASE s[i] \in {"True", "TRUE"}   -> "true"
                           [] s[i] \in {"False", "FALSE"} -> "false"
                           [] OTHER                       -> s[i]]

\* MultileadConfig() without the check of the key
MultileadConfig_NoKeyCheck(e) ==
    LET api_key  == Getenv(e, "MULTILEAD_API_KEY", None)
        base_url == Getenv(e, "MULTILEAD_BASE_URL", DefaultBaseUrl)
        timeout  == PyInt(Getenv(e, "MULTILEAD_TIMEOUT", DefaultTimeout))
        debug    == Lower(Getenv(e, "MULTILEAD_DEBUG", <<"false">>)) = <<"true">>
    IN  IF ~timeout.ok
        THEN [ok |-> FALSE, error |-> "ValueError"]
        ELSE [ok |-> TRUE, api_key |-> api_key, base_url |-> base_url,
              timeout |-> timeout.val, debug |-> debug]

\* MultileadConfig(): the configuration, or the ValueError that stops the start
MultileadConfig(e) ==
    LET api_key  == Getenv(e, "MULTILEAD_API_KEY", None)
        base_url == Getenv(e, "MULTILEAD_BASE_URL", DefaultBaseUrl)
        timeout  == PyInt(Getenv(e, "MULTILEAD_TIMEOUT", DefaultTimeout))
        debug    == Lower(Getenv(e, "MULTILEAD_DEBUG", <<"false">>)) = <<"true">>
    IN  IF ~timeout.ok \/ ~Truthy(api_key)
        THEN [ok |-> FALSE, error |-> "ValueError"]
        ELSE [ok |-> TRUE, api_key |-> api_key, base_url |-> base_url,
              timeout |-> timeout.val, debug |-> debug]

\* MultileadClient() that sends the key as a Bearer token
MultileadClient_Bearer(cfg) ==
    [base_url |-> RStripSlash(cfg.base_url),
     headers  |-> [Authorization |-> <<"Bearer ">> \o cfg.api_key,
                   ContentType   |-> <<"application/json">>,
                   Accept        |-> <<"application/json">>],
     timeout  |-> cfg.timeout]

\* MultileadClient(): base URL without trailing slashes, fixed headers, timeout
MultileadClient(cfg) ==
    [base_url |-> RStripSlash(cfg.base_url),
     headers  |-> [Authorization |-> cfg.api_key,
                   ContentType   |-> <<"application/json">>,
                   Accept        |-> <<"application/json">>],
     timeout  |-> cfg.timeout]

\* the client of a process that did not start
NoClient == [base_url |-> None]

\* the key of the test environment, character by character
TestApiKey ==
    <<"t", "e", "s", "t", "_", "a", "p", "i", "_", "k", "e", "y", "_",
      "1", "2", "3", "4", "5">>

\* the environments the server is started in
Envs ==
    { [n \in {"MULTILEAD_API_KEY"} |-> TestApiKey],
      [n \in {"MULTILEAD_API_KEY", "MULTILEAD_BASE_URL", "MULTILEAD_TIMEOUT",
              "MULTILEAD_DEBUG"} |->
          CASE n = "MULTILEAD_API_KEY"  -> TestApiKey
            [] n = "MULTILEAD_BASE_URL" -> <<"https://api.example.test", "/", "v1", "/">>
            [] n = "MULTILEAD_TIMEOUT"  -> <<"5">>
            [] n = "MULTILEAD_DEBUG"    -> <<"True">>],
      [n \in {"MULTILEAD_BASE_URL"} |-> <<"https://api.multilead.co">>],
      [n \in {"MULTILEAD_API_KEY"} |-> <<>>] }


(***************************************************************************)
(* JSON values and response.json().  A body is its sequence of JSON        *)
(* tokens; the decoder is a recursive-descent parser over them.            *)
(***************************************************************************)
\* the string literals that occur in bodies, with the text they denote
StringLiterals ==
    [tok \in {"\"id\"", "\"42\"", "\"email\"", "\"a@b.com\"", "\"ok\""} |->
        CASE tok = "\"id\""      -> "id"
          [] tok = "\"42\""      -> "42"
          [] tok = "\"email\""   -> "email"
          [] tok = "\"a@b.com\"" -> "a@b.com"
          [] tok = "\"ok\""      -> "ok"]

\* the number literals that occur in bodies, with their value
NumberLiterals == [tok \in {"1", "2", "7"} |->
                     CASE tok = "1" -> 1 [] tok = "2" -> 2 [] tok = "7" -> 7]

JStr(text)     == [t |-> "string", s |-> text]
JNum(n)        == [t |-> "number", n |-> n]
JBool(b)       == [t |-> "bool", b |-> b]
JNull          == [t |-> "null"]
JArray(items)  == [t |-> "array", items |-> items]
JObject(pairs) == [t |-> "object", members |-> pairs]

IsScalarToken(tok) ==
    \/ tok \in DOMAIN StringLiterals
    \/ tok \in DOMAIN NumberLiterals
    \/ tok \in {"true", "false", "null"}

Scalar(tok) ==
    CASE tok \in DOMAIN StringLiterals -> JStr(StringLiterals[tok])
      [] tok \in DOMAIN NumberLiterals -> JNum(NumberLiterals[tok])
      [] tok = "true"                  -> JBool(TRUE)
      [] tok = "false"                 -> JBool(FALSE)
      [] tok = "null"                  -> JNull

\* dict[key] = value: a repeated key keeps its place and takes the new value
SetMember(pairs, key, val) ==
    IF \E i \in 1..Len(pairs) : pairs[i].k = key
    THEN [i \in 1..Len(pairs) |->
             IF pairs[i].k = key THEN [k |-> key, v |-> val] ELSE pairs[i]]
    ELSE Append(pairs, [k |-> key, v |-> val])

ParseFail == [ok |-> FALSE]

ParseOk(val, rest) == [ok |-> TRUE, val |-> val, rest |-> rest]

RECURSIVE ParseValue(_), ParseElements(_, _), ParseMembers(_, _)
ParseValue(toks) ==
    IF toks = <<>> THEN ParseFail
    ELSE LET h == Head(toks)
             r == Tail(toks)
         IN  CASE IsScalarToken(h) -> ParseOk(Scalar(h), r)
               [] h = "[" -> IF r # <<>> /\ Head(r) = "]"
                             THEN ParseOk(JArray(<<>>), Tail(r))
                             ELSE ParseElements(r, <<>>)
               [] h = "{" -> IF r # <<>> /\ Head(r) = "}"
                             THEN ParseOk(JObject(<<>>), Tail(r))
                             ELSE ParseMembers(r, <<>>)
               [] OTHER -> ParseFail

ParseElements(toks, acc) ==
    LET v == ParseValue(toks)
    IN  IF ~v.ok \/ v.rest = <<>> THEN ParseFail
        ELSE CASE Head(v.rest) = "," -> ParseElements(Tail(v.rest), Append(acc, v.val))
               [] Head(v.rest) = "]" -> ParseOk(JArray(Append(acc, v.val)), Tail(v.rest))
               [] OTHER -> ParseFail

ParseMembers(toks, acc) ==
    IF Len(toks) < 3 \/ toks[1] \notin DOMAIN StringLiterals \/ toks[2] # ":"
    THEN ParseFail
    ELSE LET v == ParseValue(SubSeq(toks, 3, Len(toks)))
             key == StringLiterals[toks[1]]
         IN  IF ~v.ok \/ v.rest = <<>> THEN ParseFail
             ELSE CASE Head(v.rest) = "," ->
                         ParseMembers(Tail(v.rest), SetMember(acc, key, v.val))
                    [] Head(v.rest) = "}" ->
                         ParseOk(JObject(SetMember(acc, key, v.val)), Tail(v.rest))
                    [] OTHER -> ParseFail

\* json.loads(body): the decoded value, or JSONDecodeError
JsonDecode(body) ==
    LET v == ParseValue(body)
    IN  IF v.ok /\ v.rest = <<>> THEN [ok |-> TRUE, val |-> v.val] ELSE [ok |-> FALSE]

\* the response bodies the upstream API answers with
Bodies ==
    { <<"{", "\"id\"", ":", "\"42\"", ",", "\"email\"", ":", "\"a@b.com\"", "}">>,
      <<"[", "1", ",", "2", "]">>,
      <<"\"ok\"">>, <<"7">>, <<"true">>, <<"null">>,
      <<>>,
      <<"<html>">>,
      <<"{", "\"id\"", ":">> }


(***************************************************************************)
(* Exceptions.  An exception is its class and its message, str(e).  The    *)
(* classes are those of httpx, json, asyncio and fastmcp that the except   *)
(* clauses of MultileadClient.request tell apart.                          *)
(***************************************************************************)
Parent ==
    [cls \in {"ConnectTimeout", "ReadTimeout", "TimeoutException", "ConnectError",
              "ReadError", "NetworkError", "TransportError", "RequestError",
              "HTTPStatusError", "HTTPError", "ToolError", "JSONDecodeError",
              "ValueError", "RuntimeError", "AttributeError", "Exception",
              "CancelledError"} |->
        CASE cls \in {"ConnectTimeout", "ReadTimeout"}    -> "TimeoutException"
          [] cls \in {"ConnectError", "ReadError"}        -> "NetworkError"
          [] cls \in {"TimeoutException", "NetworkError"} -> "TransportError"
          [] cls = "TransportError"                       -> "RequestError"
          [] cls \in {"RequestError", "HTTPStatusError"}  -> "HTTPError"
          [] cls = "JSONDecodeError"                      -> "ValueError"
          [] cls \in {"HTTPError", "ToolError", "ValueError", "RuntimeError",
                       "AttributeError"}
                                                          -> "Exception"
          [] cls \in {"Exception", "CancelledError"}      -> "BaseException"]

RECURSIVE IsInstance(_, _)
IsInstance(cls, base) ==
    \/ cls = base
    \/ cls \in DOMAIN Parent /\ IsInstance(Parent[cls], base)

Exc(cls, msg) == [cls |-> cls, msg |-> msg]

ToolError(msg) == Exc("ToolError", msg)

\* how a call ends: with a value, or with an exception
Returned(value) == [kind |-> "return", value |-> value]

Raised(exc) == [kind |-> "raise", exc |-> exc]

(***************************************************************************)
(* The texts of the failures MultileadClient.request raises.               *)
(***************************************************************************)
AuthFailedText ==
    "Authentication failed. Please check your MULTILEAD_API_KEY. Get your API key from: https://app.multilead.co/settings/api"

ForbiddenText ==
    "Access forbidden. Your API key may not have permission for this resource."

NotFoundText == "Resource not found: "

RateLimitText == "Rate limit exceeded. Please wait before making more requests."

ServerErrorText == "Multilead API server error ("

TimedOutText == "Request timed out after "

NetworkErrorText == "Network error while connecting to Multilead API: "

UnexpectedText == "Unexpected error: "

(***************************************************************************)
(* MultileadClient.request                                                 *)
(***************************************************************************)
\* RequestUrl without the lstrip of the endpoint
RequestUrl_NoLstrip(self, endpoint) == self.base_url \o <<"/">> \o endpoint

\* url = f"{self.base_url}/{endpoint.lstrip('/')}"
RequestUrl(self, endpoint) == self.base_url \o <<"/">> \o LStripSlash(endpoint)

\* the call client.request(method=, url=, headers=, params=, json=) of one gateway call
HttpRequest(self, method, endpoint, params, json_data) ==
    [method  |-> method,
     url     |-> RequestUrl(self, endpoint),
     headers |-> self.headers,
     params  |-> params,
     json    |-> json_data,
     timeout |-> self.timeout]

\* IssuedRequests that sends the request a second time
IssuedRequests_Twice(self, method, endpoint, params, json_data) ==
    <<HttpRequest(self, method, endpoint, params, json_data),
      HttpRequest(self, method, endpoint, params, json_data)>>

\* the requests one gateway call hands to the HTTP client: one client.request
IssuedRequests(self, method, endpoint, params, json_data) ==
    <<HttpRequest(self, method, endpoint, params, json_data)>>

\* StatusError without the branch for 429
StatusError_NoRateLimit(status, endpoint) ==
    IF status = 401 THEN [raised |-> TRUE, exc |-> ToolError(<<AuthFailedText>>)]
    ELSE IF status = 403 THEN [raised |-> TRUE, exc |-> ToolError(<<ForbiddenText>>)]
    ELSE IF status = 404
    THEN [raised |-> TRUE, exc |-> ToolError(<<NotFoundText>> \o endpoint)]
    ELSE IF status >= 500
    THEN [raised |-> TRUE,
          exc |-> ToolError(<<ServerErrorText>> \o IntToStr(status)
                            \o <<"). Please try again later.">>)]
    ELSE [raised |-> FALSE]

\* "Handle specific HTTP errors": the ToolError of a status, or none
StatusError(status, endpoint) ==
    IF status = 401 THEN [raised |-> TRUE, exc |-> ToolError(<<AuthFailedText>>)]
    ELSE IF status = 403 THEN [raised |-> TRUE, exc |-> ToolError(<<ForbiddenText>>)]
    ELSE IF status = 404
    THEN [raised |-> TRUE, exc |-> ToolError(<<NotFoundText>> \o endpoint)]
    ELSE IF status = 429 THEN [raised |-> TRUE, exc |-> ToolError(<<RateLimitText>>)]
    ELSE IF status >= 500
    THEN [raised |-> TRUE,
          exc |-> ToolError(<<ServerErrorText>> \o IntToStr(status)
                            \o <<"). Please try again later.">>)]
    ELSE [raised |-> FALSE]

\* httpx.Response.is_success
IsSuccess(status) == 200 <= status /\ status <= 299

\* response.raise_for_status(): HTTPStatusError unless the status is 2xx
RaiseForStatus(status, url) ==
    IF IsSuccess(status) THEN [raised |-> FALSE]
    ELSE [raised |-> TRUE,
          exc |-> Exc("HTTPStatusError",
                      <<CASE status \div 100 = 1 -> "Informational response '"
                          [] status \div 100 = 3 -> "Redirect response '"
                          [] status \div 100 = 4 -> "Client error '"
                          [] status \div 100 = 5 -> "Server error '"
                          [] OTHER               -> "Invalid status code '">>
                      \o IntToStr(status) \o <<"' for url '">> \o url \o <<"'">>)]

\* the payload returned for 204 No Content
NoContentPayload ==
    JObject(<<[k |-> "success", v |-> JBool(TRUE)],
              [k |-> "message", v |-> JStr("Operation completed successfully")]>>)

\* ResponseJson that wraps the decoded body in an envelope
ResponseJson_Wrapped(body) ==
    LET d == JsonDecode(body)
    IN  IF d.ok THEN [raised |-> FALSE, value |-> JObject(<<[k |-> "data", v |-> d.val]>>)]
        ELSE [raised |-> TRUE,
              exc |-> Exc("JSONDecodeError",
                          <<"Expecting value: line 1 column 1 (char 0)">>)]

\* ResponseJson that takes an empty body for an empty object
ResponseJson_EmptyIsObject(body) ==
    LET d == JsonDecode(body)
    IN  IF body = <<>> THEN [raised |-> FALSE, value |-> JObject(<<>>)]
        ELSE IF d.ok THEN [raised |-> FALSE, value |-> d.val]
        ELSE [raised |-> TRUE,
              exc |-> Exc("JSONDecodeError",
                          <<"Expecting value: line 1 column 1 (char 0)">>)]

\* response.json(): the decoded body, or JSONDecodeError
ResponseJson(body) ==
    LET d == JsonDecode(body)
    IN  IF d.ok THEN [raised |-> FALSE, value |-> d.val]
        ELSE [raised |-> TRUE,
              exc |-> Exc("JSONDecodeError",
                          <<"Expecting value: line 1 column 1 (char 0)">>)]

\* HandleResponse that decodes the body before it looks at the status
HandleResponse_ParseFirst(endpoint, url, response) ==
    LET se == StatusError(response.status, endpoint)
        rs == RaiseForStatus(response.status, url)
        js == ResponseJson(response.body)
    IN  IF js.raised THEN [out |-> Raised(js.exc), parsed |-> TRUE]
        ELSE IF se.raised THEN [out |-> Raised(se.exc), parsed |-> TRUE]
        ELSE IF rs.raised THEN [out |-> Raised(rs.exc), parsed |-> TRUE]
        ELSE IF response.status = 204
        THEN [out |-> Returned(NoContentPayload), parsed |-> TRUE]
        ELSE [out |-> Returned(js.value), parsed |-> TRUE]

\* HandleResponse without the branch for 204
HandleResponse_No204(endpoint, url, response) ==
    LET se == StatusError(response.status, endpoint)
        rs == RaiseForStatus(response.status, url)
        js == ResponseJson(response.body)
    IN  IF se.raised THEN [out |-> Raised(se.exc), parsed |-> FALSE]
        ELSE IF rs.raised THEN [out |-> Raised(rs.exc), parsed |-> FALSE]
        ELSE IF js.raised THEN [out |-> Raised(js.exc), parsed |-> TRUE]
        ELSE [out |-> Returned(js.value), parsed |-> TRUE]

\* the code after the response arrived, up to its return or raise; parsed tells
\* whether response.json() was called
HandleResponse(endpoint, url, response) ==
    LET se == StatusError(response.status, endpoint)
        rs == RaiseForStatus(response.status, url)
        js == ResponseJson(response.body)
    IN  IF se.raised THEN [out |-> Raised(se.exc), parsed |-> FALSE]
        ELSE IF rs.raised THEN [out |-> Raised(rs.exc), parsed |-> FALSE]
        ELSE IF response.status = 204
        THEN [out |-> Returned(NoContentPayload), parsed |-> FALSE]
        ELSE IF js.raised THEN [out |-> Raised(js.exc), parsed |-> TRUE]
        ELSE [out |-> Returned(js.value), parsed |-> TRUE]

\* the body of the try statement: the awaited client.request either raises
\* (an exception of the HTTP client, or the cancellation thrown into the await)
\* or gives the response that the rest of the body handles
TryBody(endpoint, url, event) ==
    IF event.kind = "exception"
    THEN [out |-> Raised(event.exc), parsed |-> FALSE]
    ELSE HandleResponse(endpoint, url, event.response)

\* ExceptClauses whose timeout message states the default timeout
ExceptClauses_FixedTimeout(self, e) ==
    IF IsInstance(e.cls, "TimeoutException")
    THEN Raised(ToolError(<<TimedOutText>> \o DefaultTimeout
                          \o <<" seconds. Try increasing MULTILEAD_TIMEOUT in your .env file.">>))
    ELSE IF IsInstance(e.cls, "RequestError")
    THEN Raised(ToolError(<<NetworkErrorText>> \o e.msg))
    ELSE IF IsInstance(e.cls, "Exception")
    THEN IF IsInstance(e.cls, "ToolError") THEN Raised(e)
         ELSE Raised(ToolError(<<UnexpectedText>> \o e.msg))
    ELSE Raised(e)

\* ExceptClauses with the clause for RequestError put first
ExceptClauses_NetworkFirst(self, e) ==
    IF IsInstance(e.cls, "RequestError")
    THEN Raised(ToolError(<<NetworkErrorText>> \o e.msg))
    ELSE IF IsInstance(e.cls, "TimeoutException")
    THEN Raised(ToolError(<<TimedOutText>> \o IntToStr(self.timeout)
                          \o <<" seconds. Try increasing MULTILEAD_TIMEOUT in your .env file.">>))
    ELSE IF IsInstance(e.cls, "Exception")
    THEN IF IsInstance(e.cls, "ToolError") THEN Raised(e)
         ELSE Raised(ToolError(<<UnexpectedText>> \o e.msg))
    ELSE Raised(e)

\* ExceptClauses without the final "except Exception" clause
ExceptClauses_NoCatchAll(self, e) ==
    IF IsInstance(e.cls, "TimeoutException")
    THEN Raised(ToolError(<<TimedOutText>> \o IntToStr(self.timeout)
                          \o <<" seconds. Try increasing MULTILEAD_TIMEOUT in your .env file.">>))
    ELSE IF IsInstance(e.cls, "RequestError")
    THEN Raised(ToolError(<<NetworkErrorText>> \o e.msg))
    ELSE Raised(e)

\* the except clauses, in their order, applied to an exception of the try body
ExceptClauses(self, e) ==
    IF IsInstance(e.cls, "TimeoutException")
    THEN Raised(ToolError(<<TimedOutText>> \o IntToStr(self.timeout)
                          \o <<" seconds. Try increasing MULTILEAD_TIMEOUT in your .env file.">>))
    ELSE IF IsInstance(e.cls, "RequestError")
    THEN Raised(ToolError(<<NetworkErrorText>> \o e.msg))
    ELSE IF IsInstance(e.cls, "Exception")
    THEN IF IsInstance(e.cls, "ToolError") THEN Raised(e)
         ELSE Raised(ToolError(<<UnexpectedText>> \o e.msg))
    ELSE Raised(e)

\* request(method, endpoint, ...) from the moment its HTTP request is answered
RequestResult(self, endpoint, event) ==
    LET body == TryBody(endpoint, RequestUrl(self, endpoint), event)
    IN  [out    |-> IF body.out.kind = "raise"
                    THEN ExceptClauses(self, body.out.exc)
                    ELSE body.out,
         parsed |-> body.parsed]


(***************************************************************************)
(* Tools.  A tool builds the arguments of its gateway call and returns     *)
(* what the gateway returns.                                               *)
(***************************************************************************)
\* an absent params or json_data argument
PyNone == [t |-> "None"]

GatewayArgs(method, endpoint, params, json_data) ==
    [method |-> method, endpoint |-> endpoint, params |-> params,
     json_data |-> json_data]

\* client.request("GET", f"/v1/leads/{lead_id}")
get_lead(lead_id) ==
    GatewayArgs("GET", <<"/", "v1", "/", "leads", "/">> \o lead_id, PyNone, PyNone)

\* client.request("DELETE", f"/v1/leads/{lead_id}")
delete_lead(lead_id) ==
    GatewayArgs("DELETE", <<"/", "v1", "/", "leads", "/">> \o lead_id, PyNone, PyNone)

\* a tool that goes on to await client.request(...) with these arguments
AwaitRequest(args) == [kind |-> "await", args |-> args]

\* bool(x) of an optional str, list, dict, int or bool argument
PyBool(x) ==
    CASE x.t = "None"   -> FALSE
      [] x.t = "string" -> x.s # <<>>
      [] x.t = "array"  -> x.items # <<>>
      [] x.t = "object" -> x.members # <<>>
      [] x.t = "number" -> x.n # 0
      [] x.t = "bool"   -> x.b

\* dict.update(other): the members of other, set one after the other
RECURSIVE DictUpdate(_, _)
DictUpdate(pairs, other) ==
    IF other = <<>> THEN pairs
    ELSE DictUpdate(SetMember(pairs, Head(other).k, Head(other).v), Tail(other))

ProfileOrEmailText == "Either profile_url or email must be provided"

\* add_leads_to_campaign without the check of profile_url and email
add_leads_to_campaign_NoCheck(campaign_id, profile_url, email, custom_fields) ==
    LET d1 == IF PyBool(profile_url) THEN SetMember(<<>>, "profileUrl", profile_url) ELSE <<>>
        d2 == IF PyBool(email) THEN SetMember(d1, "email", email) ELSE d1
        d3 == IF PyBool(custom_fields) THEN DictUpdate(d2, custom_fields.members) ELSE d2
    IN  AwaitRequest(GatewayArgs("POST",
                                 <<"/", "campaign", "/">> \o campaign_id \o <<"/", "leads">>,
                                 PyNone, JObject(d3)))

\* add_leads_to_campaign: the check, then lead_data and
\* client.request("POST", f"/campaign/{campaign_id}/leads", json_data=lead_data)
add_leads_to_campaign(campaign_id, profile_url, email, custom_fields) ==
    IF ~PyBool(profile_url) /\ ~PyBool(email)
    THEN Raised(ToolError(<<ProfileOrEmailText>>))
    ELSE LET d1 == IF PyBool(profile_url)
                   THEN SetMember(<<>>, "profileUrl", profile_url) ELSE <<>>
             d2 == IF PyBool(email) THEN SetMember(d1, "email", email) ELSE d1
             d3 == IF PyBool(custom_fields)
                   THEN DictUpdate(d2, custom_fields.members) ELSE d2
         IN  AwaitRequest(GatewayArgs("POST",
                                      <<"/", "campaign", "/">> \o campaign_id
                                          \o <<"/", "leads">>,
                                      PyNone, JObject(d3)))

NoFieldText == "At least one field must be provided to update"

\* update_lead that keeps the truthy values instead of those that are not None
update_lead_DropsFalsy(lead_id, email, first_name, last_name, company, title, phone, tags, custom_fields) ==
    LET all_fields  == << [k |-> "email", v |-> email],
                          [k |-> "first_name", v |-> first_name],
                          [k |-> "last_name", v |-> last_name],
                          [k |-> "company", v |-> company],
                          [k |-> "title", v |-> title],
                          [k |-> "phone", v |-> phone],
                          [k |-> "tags", v |-> tags],
                          [k |-> "custom_fields", v |-> custom_fields] >>
        Kept(p)     == PyBool(p.v)
        update_data == SelectSeq(all_fields, Kept)
    IN  IF update_data = <<>>
        THEN Raised(ToolError(<<NoFieldText>>))
        ELSE AwaitRequest(GatewayArgs("PUT", <<"/", "v1", "/", "leads", "/">> \o lead_id,
                                      PyNone, JObject(update_data)))

\* update_lead: the dict of the eight fields without its None values, the
\* check, then client.request("PUT", f"/v1/leads/{lead_id}", json_data=update_data)
update_lead(lead_id, email, first_name, last_name, company, title, phone, tags, custom_fields) ==
    LET all_fields  == << [k |-> "email", v |-> email],
                          [k |-> "first_name", v |-> first_name],
                          [k |-> "last_name", v |-> last_name],
                          [k |-> "company", v |-> company],
                          [k |-> "title", v |-> title],
                          [k |-> "phone", v |-> phone],
                          [k |-> "tags", v |-> tags],
                          [k |-> "custom_fields", v |-> custom_fields] >>
        Kept(p)     == p.v.t # "None"
        update_data == SelectSeq(all_fields, Kept)
    IN  IF update_data = <<>>
        THEN Raised(ToolError(<<NoFieldText>>))
        ELSE AwaitRequest(GatewayArgs("PUT", <<"/", "v1", "/", "leads", "/">> \o lead_id,
                                      PyNone, JObject(update_data)))

\* dict literal of the two add_keyword tools
KeywordData(keywords, keyword_type, comparison_type) ==
    JObject(<< [k |-> "keywords", v |-> keywords],
               [k |-> "type", v |-> keyword_type],
               [k |-> "comparisonType", v |-> comparison_type],
               [k |-> "source", v |-> JStr(<<"manual">>)] >>)

\* client.request("PATCH",
\*     f"/teams/{team_id}/users/{user_id}/global_blacklists/add_keyword", ...)
add_keywords_to_global_blacklist(team_id, user_id, keywords, keyword_type, comparison_type) ==
    AwaitRequest(GatewayArgs("PATCH",
                             <<"/", "teams", "/">> \o team_id \o <<"/", "users", "/">>
                                 \o user_id
                                 \o <<"/", "global_blacklists", "/", "add_keyword">>,
                             PyNone,
                             KeywordData(keywords, keyword_type, comparison_type)))

\* client.request("PATCH",
\*     f"/users/{user_id}/accounts/{account_id}/blacklists/add_keyword", ...)
add_keywords_to_blacklist(user_id, account_id, keywords, keyword_type, comparison_type) ==
    AwaitRequest(GatewayArgs("PATCH",
                             <<"/", "users", "/">> \o user_id \o <<"/", "accounts", "/">>
                                 \o account_id
                                 \o <<"/", "blacklists", "/", "add_keyword">>,
                             PyNone,
                             KeywordData(keywords, keyword_type, comparison_type)))

\* the three literals of the message of the import tools, around the name of
\* the tool to use instead
CsvNotImplementedText ==
    "CSV file upload is not yet implemented in this MCP server. Please use the "

CsvUseListText == " tool with a list of keywords instead, "

CsvUseWebText == "or upload the CSV file directly via the Multilead web interface."

\* raise ToolError("CSV file upload is not yet implemented ...")
import_keywords_to_global_blacklist_csv(team_id, user_id, csv_file_path, keyword_type, comparison_type) ==
    Raised(ToolError(<<CsvNotImplementedText, "add_keywords_to_global_blacklist",
                       CsvUseListText, CsvUseWebText>>))

\* import_keywords_to_blacklist_csv with the message of the global tool
import_keywords_to_blacklist_csv_GlobalText(user_id, account_id, csv_file_path, keyword_type, comparison_type) ==
    Raised(ToolError(<<CsvNotImplementedText, "add_keywords_to_global_blacklist",
                       CsvUseListText, CsvUseWebText>>))

\* raise ToolError("CSV file upload is not yet implemented ...")
import_keywords_to_blacklist_csv(user_id, account_id, csv_file_path, keyword_type, comparison_type) ==
    Raised(ToolError(<<CsvNotImplementedText, "add_keywords_to_blacklist",
                       CsvUseListText, CsvUseWebText>>))

\* x or default
PyOr(x, default) == IF PyBool(x) THEN x ELSE default

\* create_lead: the dict of the eight fields with `tags or []` and
\* `custom_fields or {}`, without its None values, then
\* client.request("POST", "/v1/leads", json_data=lead_data)
create_lead(email, first_name, last_name, company, title, phone, tags, custom_fields) ==
    LET all_fields == << [k |-> "email", v |-> email],
                         [k |-> "first_name", v |-> first_name],
                         [k |-> "last_name", v |-> last_name],
                         [k |-> "company", v |-> company],
                         [k |-> "title", v |-> title],
                         [k |-> "phone", v |-> phone],
                         [k |-> "tags", v |-> PyOr(tags, JArray(<<>>))],
                         [k |-> "custom_fields", v |-> PyOr(custom_fields, JObject(<<>>))] >>
        Kept(p)    == p.v.t # "None"
        lead_data  == SelectSeq(all_fields, Kept)
    IN  AwaitRequest(GatewayArgs("POST", <<"/", "v1", "/", "leads">>, PyNone,
                                 JObject(lead_data)))

\* register_new_user: the four required keys, each optional one added when it
\* is not None, then client.request("POST", "/users/register", json_data=request_data)
register_new_user(email, password, full_name, whitelabel_id, phone, invitation_id, skip_confirmation_email) ==
    LET d0 == << [k |-> "email", v |-> email],
                 [k |-> "password", v |-> password],
                 [k |-> "fullName", v |-> full_name],
                 [k |-> "whitelabelId", v |-> whitelabel_id] >>
        d1 == IF phone.t # "None" THEN SetMember(d0, "phone", phone) ELSE d0
        d2 == IF invitation_id.t # "None"
              THEN SetMember(d1, "invitationId", invitation_id) ELSE d1
        d3 == IF skip_confirmation_email.t # "None"
              THEN SetMember(d2, "skipConfirmationEmail", skip_confirmation_email) ELSE d2
    IN  AwaitRequest(GatewayArgs("POST", <<"/", "users", "/", "register">>, PyNone,
                                 JObject(d3)))

\* str(x) of an int, a bool or a str
PyStr(x) ==
    CASE x.t = "number" -> IntToStr(x.n)
      [] x.t = "bool"   -> IF x.b THEN <<"True">> ELSE <<"False">>
      [] x.t = "string" -> x.s

\* sep.join(texts)
RECURSIVE StrJoin(_, _)
StrJoin(sep, texts) ==
    IF texts = <<>> THEN <<>>
    ELSE IF Len(texts) = 1 THEN texts[1]
    ELSE texts[1] \o sep \o StrJoin(sep, Tail(texts))

\* f"[{','.join(map(str, xs))}]"
BracketJoin(xs) ==
    <<"[">> \o StrJoin(<<",">>, [k \in 1..Len(xs.items) |-> PyStr(xs.items[k])]) \o <<"]">>

\* json.dumps(xs) of a list of str or int: ", " between the items, each str
\* in double quotes
JsonDumps(xs) ==
    LET Item(x) == IF x.t = "string" THEN <<"\"">> \o x.s \o <<"\"">> ELSE PyStr(x)
    IN  <<"[">> \o StrJoin(<<", ">>, [k \in 1..Len(xs.items) |-> Item(xs.items[k])])
            \o <<"]">>

\* list_leads: limit and offset, each filter that is truthy, tags joined with
\* ",", then client.request("GET", "/v1/leads", params=params)
list_leads(tags, company, created_after, created_before, limit, offset) ==
    LET d0 == << [k |-> "limit", v |-> limit], [k |-> "offset", v |-> offset] >>
        d1 == IF PyBool(tags)
              THEN SetMember(d0, "tags",
                             JStr(StrJoin(<<",">>, [k \in 1..Len(tags.items) |->
                                                        tags.items[k].s])))
              ELSE d0
        d2 == IF PyBool(company) THEN SetMember(d1, "company", company) ELSE d1
        d3 == IF PyBool(created_after)
              THEN SetMember(d2, "created_after", created_after) ELSE d2
        d4 == IF PyBool(created_before)
              THEN SetMember(d3, "created_before", created_before) ELSE d3
    IN  AwaitRequest(GatewayArgs("GET", <<"/", "v1", "/", "leads">>, JObject(d4), PyNone))

\* params[key] = value when cond, as the `if` statements of a tool do
SetIf(cond, pairs, key, val) == IF cond THEN SetMember(pairs, key, val) ELSE pairs

\* get_leads_from_campaign: limit and offset, then one `if` per filter, then
\* client.request("GET",
\*     f"/users/{user_id}/accounts/{account_id}/campaigns/{campaign_id}/leads", params=params)
get_leads_from_campaign(user_id, account_id, campaign_id, search, filter_by_verified_emails, filter_by_not_verified_emails, filter_by_status, filter_by_connection_degree, filter_by_current_step, filter_by_name, filter_by_company, filter_by_occupation, filter_by_headline, filter_by_out_of_office, filter_by_step_change_timestamp, filter_by_selected_leads, limit, offset) ==
    LET d0  == << [k |-> "limit", v |-> limit], [k |-> "offset", v |-> offset] >>
        d1  == SetIf(PyBool(search), d0, "search", search)
        d2  == SetIf(filter_by_verified_emails.t # "None", d1, "filterByVerifiedEmails",
                     JStr(Lower(PyStr(filter_by_verified_emails))))
        d3  == SetIf(filter_by_not_verified_emails.t # "None", d2,
                     "filterByNotVerifiedEmails",
                     JStr(Lower(PyStr(filter_by_not_verified_emails))))
        d4  == SetIf(PyBool(filter_by_status), d3, "filterByStatus",
                     JStr(BracketJoin(filter_by_status)))
        d5  == SetIf(PyBool(filter_by_connection_degree), d4, "filterByConnectionDegree",
                     JStr(BracketJoin(filter_by_connection_degree)))
        d6  == SetIf(PyBool(filter_by_current_step), d5, "filterByCurrentStep",
                     JStr(BracketJoin(filter_by_current_step)))
        d7  == SetIf(PyBool(filter_by_name), d6, "filterByName", filter_by_name)
        d8  == SetIf(PyBool(filter_by_company), d7, "filterByCompany", filter_by_company)
        d9  == SetIf(PyBool(filter_by_occupation), d8, "filterByOccupation",
                     filter_by_occupation)
        d10 == SetIf(PyBool(filter_by_headline), d9, "filterByHeadline",
                     filter_by_headline)
        d11 == SetIf(filter_by_out_of_office.t # "None", d10, "filterByOutOfOffice",
                     JStr(Lower(PyStr(filter_by_out_of_office))))
        d12 == SetIf(PyBool(filter_by_step_change_timestamp), d11,
                     "filterByStepChangeTimestamp", filter_by_step_change_timestamp)
        d13 == SetIf(PyBool(filter_by_selected_leads), d12, "filterBySelectedLeads",
                     JStr(BracketJoin(filter_by_selected_leads)))
    IN  AwaitRequest(GatewayArgs("GET",
                                 <<"/", "users", "/">> \o user_id
                                     \o <<"/", "accounts", "/">> \o account_id
                                     \o <<"/", "campaigns", "/">> \o campaign_id
                                     \o <<"/", "leads">>,
                                 JObject(d13), PyNone))

\* get_statistics: from, to, curves as the list it is, timeZone, campaignId
\* when not None, then
\* client.request("GET", f"/users/{user_id}/accounts/{account_id}/statistics", params=params)
get_statistics(user_id, account_id, from_timestamp, to_timestamp, curves, time_zone, campaign_id) ==
    LET d0 == << [k |-> "from", v |-> from_timestamp],
                 [k |-> "to", v |-> to_timestamp],
                 [k |-> "curves", v |-> curves],
                 [k |-> "timeZone", v |-> time_zone] >>
        d1 == SetIf(campaign_id.t # "None", d0, "campaignId", campaign_id)
    IN  AwaitRequest(GatewayArgs("GET",
                                 <<"/", "users", "/">> \o user_id
                                     \o <<"/", "accounts", "/">> \o account_id
                                     \o <<"/", "statistics">>,
                                 JObject(d1), PyNone))

\* get_messages_from_a_specific_thread: threads through json.dumps when not
\* empty, the timestamp when not None, then client.request("GET",
\*     f"/users/{user_id}/accounts/{account_id}/conversations/threads", params=params)
get_messages_from_a_specific_thread(user_id, account_id, threads, filter_by_step_change_timestamp) ==
    LET d1 == SetIf(PyBool(threads), <<>>, "threads", JStr(JsonDumps(threads)))
        d2 == SetIf(filter_by_step_change_timestamp.t # "None", d1,
                    "filterByStepChangeTimestamp", filter_by_step_change_timestamp)
    IN  AwaitRequest(GatewayArgs("GET",
                                 <<"/", "users", "/">> \o user_id
                                     \o <<"/", "accounts", "/">> \o account_id
                                     \o <<"/", "conversations", "/", "threads">>,
                                 JObject(d2), PyNone))

\* a tool invocation up to its first await or, if it comes first, its raise;
\* "request" is a caller that calls MultileadClient.request itself
ToolStart(i) ==
    CASE i.tool = "get_lead"    -> AwaitRequest(get_lead(i.lead_id))
      [] i.tool = "delete_lead" -> AwaitRequest(delete_lead(i.lead_id))
      [] i.tool = "request"     ->
            AwaitRequest(GatewayArgs(i.method, i.endpoint, PyNone, PyNone))
      [] i.tool = "add_leads_to_campaign" ->
            add_leads_to_campaign(i.campaign_id, i.profile_url, i.email, i.custom_fields)
      [] i.tool = "update_lead" ->
            update_lead(i.lead_id, i.email, i.first_name, i.last_name, i.company,
                        i.title, i.phone, i.tags, i.custom_fields)
      [] i.tool = "add_keywords_to_global_blacklist" ->
            add_keywords_to_global_blacklist(i.team_id, i.user_id, i.keywords,
                                             i.keyword_type, i.comparison_type)
      [] i.tool = "add_keywords_to_blacklist" ->
            add_keywords_to_blacklist(i.user_id, i.account_id, i.keywords,
                                      i.keyword_type, i.comparison_type)
      [] i.tool = "import_keywords_to_global_blacklist_csv" ->
            import_keywords_to_global_blacklist_csv(i.team_id, i.user_id,
                                                    i.csv_file_path, i.keyword_type,
                                                    i.comparison_type)
      [] i.tool = "import_keywords_to_blacklist_csv" ->
            import_keywords_to_blacklist_csv(i.user_id, i.account_id, i.csv_file_path,
                                             i.keyword_type, i.comparison_type)
      [] i.tool = "multilead://stats" ->
            AwaitRequest(GatewayArgs("GET", <<"/", "v1", "/", "account", "/", "stats">>,
                                     PyNone, PyNone))
      [] i.tool = "create_lead" ->
            create_lead(i.email, i.first_name, i.last_name, i.company, i.title,
                        i.phone, i.tags, i.custom_fields)
      [] i.tool = "register_new_user" ->
            register_new_user(i.email, i.password, i.full_name, i.whitelabel_id,
                              i.phone, i.invitation_id, i.skip_confirmation_email)
      [] i.tool = "list_leads" ->
            list_leads(i.tags, i.company, i.created_after, i.created_before, i.limit,
                       i.offset)
      [] i.tool = "get_leads_from_campaign" ->
            get_leads_from_campaign(i.user_id, i.account_id, i.campaign_id, i.search,
                i.filter_by_verified_emails, i.filter_by_not_verified_emails,
                i.filter_by_status, i.filter_by_connection_degree,
                i.filter_by_current_step, i.filter_by_name, i.filter_by_company,
                i.filter_by_occupation, i.filter_by_headline, i.filter_by_out_of_office,
                i.filter_by_step_change_timestamp, i.filter_by_selected_leads, i.limit,
                i.offset)
      [] i.tool = "get_statistics" ->
            get_statistics(i.user_id, i.account_id, i.from_timestamp, i.to_timestamp,
                           i.curves, i.time_zone, i.campaign_id)
      [] i.tool = "get_messages_from_a_specific_thread" ->
            get_messages_from_a_specific_thread(i.user_id, i.account_id, i.threads,
                                                i.filter_by_step_change_timestamp)

\* the gateway call a tool invocation makes
ToolArgs(i) == ToolStart(i).args

\* a text a resource returns
Text(s) == [t |-> "text", s |-> s]

\* type(v).__name__ of a decoded JSON value
TypeName(v) ==
    CASE v.t = "object" -> "dict"
      [] v.t = "array"  -> "list"
      [] v.t = "string" -> "str"
      [] v.t = "number" -> "int"
      [] v.t = "bool"   -> "bool"
      [] v.t = "null"   -> "NoneType"

\* repr(v) of a decoded JSON value
RECURSIVE PyRepr(_)
PyRepr(v) ==
    CASE v.t = "string" -> <<"'", v.s, "'">>
      [] v.t = "number" -> IntToStr(v.n)
      [] v.t = "bool"   -> IF v.b THEN <<"True">> ELSE <<"False">>
      [] v.t = "null"   -> <<"None">>
      [] v.t = "array"  ->
            <<"[">> \o StrJoin(<<", ">>, [k \in 1..Len(v.items) |-> PyRepr(v.items[k])])
                \o <<"]">>
      [] v.t = "object" ->
            <<"{">> \o StrJoin(<<", ">>,
                               [k \in 1..Len(v.members) |->
                                   <<"'", v.members[k].k, "': ">>
                                       \o PyRepr(v.members[k].v)])
                \o <<"}">>

\* the text an f-string puts for {v}
PyFormat(v) == IF v.t = "string" THEN <<v.s>> ELSE PyRepr(v)

\* d.get(key, default) of a dict
DictGet(d, key, default) ==
    IF \E k \in 1..Len(d.members) : d.members[k].k = key
    THEN d.members[CHOOSE k \in 1..Len(d.members) : d.members[k].k = key].v
    ELSE default

\* AttributeError of v.get(...) when v is not a dict
NoGetAttribute(v) ==
    Exc("AttributeError", <<"'", TypeName(v), "' object has no attribute 'get'">>)

StatsErrorText == "# Multilead API Statistics\n\nError fetching statistics: "

\* datetime.now().isoformat() when the text is rendered
NowIso == "2026-01-01T00:00:00.000000"

\* the f-string of get_api_stats
StatsText(stats, account, usage) ==
    LET NA == JStr("N/A")
        Field(d, key, fallback) == PyFormat(DictGet(d, key, DictGet(stats, fallback, NA)))
    IN  Text(<<"# Multilead API Statistics\n\n**Total Leads:** ">>
             \o Field(account, "leads_count", "total_leads")
             \o <<"\n**Total Campaigns:** ">>
             \o Field(account, "campaigns_count", "campaigns_count")
             \o <<"\n**Active Campaigns:** ">>
             \o Field(account, "active_campaigns", "active_campaigns")
             \o <<"\n**Total Conversations:** ">>
             \o Field(account, "conversations_count", "total_conversations")
             \o <<"\n**API Requests (Today):** ">>
             \o Field(usage, "api_calls_today", "api_requests_today")
             \o <<"\n**Rate Limit:** ">>
             \o Field(usage, "rate_limit", "rate_limit") \o <<" requests/hour">>
             \o <<"\n**Rate Limit Remaining:** ">>
             \o Field(usage, "rate_limit_remaining", "rate_limit_remaining")
             \o <<"\n\nLast updated: ", NowIso, "\n">>)

\* the try body of get_api_stats after the await: the text, or the
\* AttributeError of a .get on something that is not a dict
StatsTryBody(stats) ==
    IF stats.t # "object" THEN Raised(NoGetAttribute(stats))
    ELSE LET account == DictGet(stats, "account", JObject(<<>>))
             usage   == DictGet(stats, "usage", JObject(<<>>))
         IN  IF account.t # "object" THEN Raised(NoGetAttribute(account))
             ELSE IF usage.t # "object" THEN Raised(NoGetAttribute(usage))
             ELSE Returned(StatsText(stats, account, usage))

\* get_api_stats without its try/except
get_api_stats_NoExcept(gw) ==
    IF gw.kind = "raise" THEN gw ELSE StatsTryBody(gw.value)

\* get_api_stats from the end of its await of client.request: `except
\* Exception` turns what the gateway or the try body raises into a text
get_api_stats(gw) ==
    LET body == IF gw.kind = "raise" THEN gw ELSE StatsTryBody(gw.value)
    IN  IF body.kind = "raise" /\ IsInstance(body.exc.cls, "Exception")
        THEN Returned(Text(<<StatsErrorText>> \o body.exc.msg))
        ELSE body

\* ToolResult that catches the failure of the gateway and returns a fallback
ToolResult_Fallback(i, gw) ==
    IF gw.kind = "raise"
    THEN Returned(JObject(<<[k |-> "success", v |-> JBool(FALSE)]>>))
    ELSE gw

\* a tool: result = await client.request(...); return result.  The resource
\* multilead://stats: what get_api_stats makes of the outcome
ToolResult(i, gw) == IF i.tool = "multilead://stats" THEN get_api_stats(gw) ELSE gw

\* the tool invocations a caller makes
Invocations ==
    { [tool |-> "get_lead", lead_id |-> <<"999">>],
      [tool |-> "delete_lead", lead_id |-> <<"42">>] }

(***************************************************************************)
(* What the awaited HTTP request can end with.                             *)
(***************************************************************************)
Statuses == {200, 201, 204, 302, 400, 401, 403, 404, 422, 429, 500, 503}

\* bodies sent along with a status that carries no payload of interest
OtherBodies == { <<"{", "\"id\"", ":", "\"42\"", ",", "\"email\"", ":", "\"a@b.com\"", "}">>,
                 <<>>, <<"<html>">> }

Responses ==
    [status : {200, 201}, body : Bodies]
        \cup [status : Statuses \ {200, 201}, body : OtherBodies]

\* exceptions of the HTTP client: timeouts, connection failures, anything else
ClientExceptions ==
    { Exc("ConnectTimeout", <<"timed out">>),
      Exc("ReadTimeout", <<>>),
      Exc("ConnectError", <<"[Errno -2] Name or service not known">>),
      Exc("ConnectError", <<"[Errno 111] Connection refused">>),
      Exc("ReadError", <<"[Errno 104] Connection reset by peer">>),
      Exc("RuntimeError", <<"Event loop is closed">>) }

\* the cancellation of the task that awaits the request
Cancellation == Exc("CancelledError", <<>>)

ResponseEvent(r) == [kind |-> "response", response |-> r]

ExceptionEvent(e) == [kind |-> "exception", exc |-> e]

(***************************************************************************)
(* RateLimiter.  The buckets are defaultdict(list): every identifier has a *)
(* list, empty until a request of it is recorded.  Times are whole seconds.*)
(***************************************************************************)
Identifiers == {"10.0.0.1", "10.0.0.2"}

RateLimiter(requests_per_minute, requests_per_hour) ==
    [requests_per_minute |-> requests_per_minute,
     requests_per_hour   |-> requests_per_hour,
     minute_buckets      |-> [identifier \in Identifiers |-> <<>>],
     hour_buckets        |-> [identifier \in Identifiers |-> <<>>]]

\* [t for t in bucket if t > cutoff]
CleanOld(bucket, cutoff) == SelectSeq(bucket, LAMBDA t : t > cutoff)

MinuteLimitText(self) ==
    <<"Rate limit exceeded: ", ToString(self.requests_per_minute), " requests per minute">>

HourLimitText(self) ==
    <<"Rate limit exceeded: ", ToString(self.requests_per_hour), " requests per hour">>

\* is_allowed that lets a request through when the bucket is exactly full
is_allowed_OneOver(self, identifier, now) ==
    LET minutes == CleanOld(self.minute_buckets[identifier], now - 60)
        hours   == CleanOld(self.hour_buckets[identifier], now - 3600)
        cleaned == [self EXCEPT !.minute_buckets[identifier] = minutes,
                                !.hour_buckets[identifier] = hours]
    IN  IF Len(minutes) > self.requests_per_minute
        THEN [allowed |-> FALSE, message |-> MinuteLimitText(self), self |-> cleaned]
        ELSE IF Len(hours) > self.requests_per_hour
        THEN [allowed |-> FALSE, message |-> HourLimitText(self), self |-> cleaned]
        ELSE [allowed |-> TRUE, message |-> <<>>,
              self |-> [cleaned EXCEPT !.minute_buckets[identifier] = Append(minutes, now),
                                       !.hour_buckets[identifier] = Append(hours, now)]]

\* is_allowed that records the request before it checks the limits
is_allowed_RecordsDenied(self, identifier, now) ==
    LET minutes == CleanOld(self.minute_buckets[identifier], now - 60)
        hours   == CleanOld(self.hour_buckets[identifier], now - 3600)
        recorded == [self EXCEPT !.minute_buckets[identifier] = Append(minutes, now),
                                 !.hour_buckets[identifier] = Append(hours, now)]
    IN  IF Len(minutes) >= self.requests_per_minute
        THEN [allowed |-> FALSE, message |-> MinuteLimitText(self), self |-> recorded]
        ELSE IF Len(hours) >= self.requests_per_hour
        THEN [allowed |-> FALSE, message |-> HourLimitText(self), self |-> recorded]
        ELSE [allowed |-> TRUE, message |-> <<>>, self |-> recorded]

\* RateLimiter.is_allowed at time.time() = now: the answer, and the limiter
\* as the call leaves it
is_allowed(self, identifier, now) ==
    LET minute_ago == now - 60
        hour_ago   == now - 3600
        minutes == CleanOld(self.minute_buckets[identifier], minute_ago)
        hours   == CleanOld(self.hour_buckets[identifier], hour_ago)
        cleaned == [self EXCEPT !.minute_buckets[identifier] = minutes,
                                !.hour_buckets[identifier] = hours]
        minute_count == Len(minutes)
        hour_count   == Len(hours)
    IN  IF minute_count >= self.requests_per_minute
        THEN [allowed |-> FALSE, message |-> MinuteLimitText(self), self |-> cleaned]
        ELSE IF hour_count >= self.requests_per_hour
        THEN [allowed |-> FALSE, message |-> HourLimitText(self), self |-> cleaned]
        ELSE [allowed |-> TRUE, message |-> <<>>,
              self |-> [cleaned EXCEPT !.minute_buckets[identifier] = Append(minutes, now),
                                       !.hour_buckets[identifier] = Append(hours, now)]]

(***************************************************************************)
(* State.                                                                  *)
(***************************************************************************)
VARIABLES
    env,      \* the environment the process was started in
    config,   \* the module-level MultileadConfig
    client,   \* the module-level MultileadClient
    pc,       \* per slot: "idle", or "awaiting" the answer of its HTTP request
    inv,      \* per slot: the tool invocation running in it
    wire,     \* per slot: the HTTP requests its gateway call has issued
    ctx,      \* the slots whose httpx.AsyncClient context is open
    ncalls,   \* gateway calls started so far
    nsent,    \* HTTP requests issued so far
    last,     \* the invocation that completed last, as its caller saw it
    rate_limiter,  \* the module-level RateLimiter
    clock,    \* what time.time() returned last
    answers   \* the is_allowed calls made so far, with their answers

vars == <<env, config, client, pc, inv, wire, ctx, ncalls, nsent, last, rate_limiter, clock, answers>>

NoInvocation == [tool |-> "none"]

NoLast == [done |-> FALSE]

\* the module is imported: config and client are built, nothing has run yet
Start ==
    /\ config = MultileadConfig(env)
    /\ client = IF config.ok THEN MultileadClient(config) ELSE NoClient
    /\ pc = [c \in Calls |-> "idle"]
    /\ inv = [c \in Calls |-> NoInvocation]
    /\ wire = [c \in Calls |-> <<>>]
    /\ ctx = {}
    /\ ncalls = 0
    /\ nsent = 0
    /\ last = NoLast
    /\ clock = 0
    /\ answers = <<>>

\* rate_limiter as the module builds it when RATE_LIMIT_PER_MINUTE and
\* RATE_LIMIT_PER_HOUR are not set
DefaultLimiter == rate_limiter = RateLimiter(100, 1000)

Init ==
    /\ env \in Envs
    /\ Start
    /\ DefaultLimiter

\* Invoke that stores the URL it has built in self.base_url instead of a local
Invoke_OverwritesBaseUrl(c, i) ==
    LET a    == ToolArgs(i)
        reqs == IssuedRequests(client, a.method, a.endpoint, a.params, a.json_data)
    IN  /\ config.ok
        /\ ToolStart(i).kind = "await"
        /\ pc[c] = "idle"
        /\ ncalls < MaxCalls
        /\ pc' = [pc EXCEPT ![c] = "awaiting"]
        /\ inv' = [inv EXCEPT ![c] = i]
        /\ wire' = [wire EXCEPT ![c] = reqs]
        /\ ctx' = ctx \cup {c}
        /\ ncalls' = ncalls + 1
        /\ nsent' = nsent + Len(reqs)
        /\ client' = [client EXCEPT !.base_url = RequestUrl(client, a.endpoint)]
        /\ UNCHANGED <<rate_limiter, clock, answers, env, config, last>>

\* a tool is invoked and gets to its gateway call: it runs up to the await of
\* client.request inside MultileadClient.request, with the AsyncClient context
\* entered
Invoke(c, i) ==
    LET a    == ToolArgs(i)
        reqs == IssuedRequests(client, a.method, a.endpoint, a.params, a.json_data)
    IN  /\ config.ok
        /\ ToolStart(i).kind = "await"
        /\ pc[c] = "idle"
        /\ ncalls < MaxCalls
        /\ pc' = [pc EXCEPT ![c] = "awaiting"]
        /\ inv' = [inv EXCEPT ![c] = i]
        /\ wire' = [wire EXCEPT ![c] = reqs]
        /\ ctx' = ctx \cup {c}
        /\ ncalls' = ncalls + 1
        /\ nsent' = nsent + Len(reqs)
        /\ UNCHANGED <<rate_limiter, clock, answers, env, config, client, last>>

\* Complete that reads the arguments from one attribute shared by all calls,
\* which the call started in the highest slot has overwritten
Complete_CrossTalk(c, event) ==
    LET d  == CHOOSE x \in Calls :
                  pc[x] = "awaiting" /\ \A y \in Calls : pc[y] = "awaiting" => y <= x
        a  == ToolArgs(inv[d])
        gw == RequestResult(client, a.endpoint, event)
    IN  /\ last' = [done     |-> TRUE,
                    inv      |-> inv[c],
                    endpoint |-> a.endpoint,
                    event    |-> event,
                    parsed   |-> gw.parsed,
                    gw       |-> gw.out,
                    out      |-> ToolResult(inv[c], gw.out),
                    sent     |-> wire[c]]
        /\ pc' = [pc EXCEPT ![c] = "idle"]
        /\ inv' = [inv EXCEPT ![c] = NoInvocation]
        /\ wire' = [wire EXCEPT ![c] = <<>>]
        /\ ctx' = ctx \ {c}
        /\ UNCHANGED <<rate_limiter, clock, answers, env, config, client, ncalls, nsent>>

\* Complete that closes the AsyncClient on the way to `return` only, so that
\* a call ending with an exception leaves it open
Complete_LeakOnRaise(c, event) ==
    LET a  == ToolArgs(inv[c])
        gw == RequestResult(client, a.endpoint, event)
    IN  /\ last' = [done     |-> TRUE,
                    inv      |-> inv[c],
                    endpoint |-> a.endpoint,
                    event    |-> event,
                    parsed   |-> gw.parsed,
                    gw       |-> gw.out,
                    out      |-> ToolResult(inv[c], gw.out),
                    sent     |-> wire[c]]
        /\ pc' = [pc EXCEPT ![c] = "idle"]
        /\ inv' = [inv EXCEPT ![c] = NoInvocation]
        /\ wire' = [wire EXCEPT ![c] = <<>>]
        /\ ctx' = IF gw.out.kind = "raise" THEN ctx ELSE ctx \ {c}
        /\ UNCHANGED <<rate_limiter, clock, answers, env, config, client, ncalls, nsent>>

\* the await ends with event: the rest of request() and of the tool run, the
\* AsyncClient context is left, and the caller gets the outcome
Complete(c, event) ==
    LET a  == ToolArgs(inv[c])
        gw == RequestResult(client, a.endpoint, event)
    IN  /\ last' = [done     |-> TRUE,
                    inv      |-> inv[c],
                    endpoint |-> a.endpoint,
                    event    |-> event,
                    parsed   |-> gw.parsed,
                    gw       |-> gw.out,
                    out      |-> ToolResult(inv[c], gw.out),
                    sent     |-> wire[c]]
        /\ pc' = [pc EXCEPT ![c] = "idle"]
        /\ inv' = [inv EXCEPT ![c] = NoInvocation]
        /\ wire' = [wire EXCEPT ![c] = <<>>]
        /\ ctx' = ctx \ {c}
        /\ UNCHANGED <<rate_limiter, clock, answers, env, config, client, ncalls, nsent>>

\* the upstream API answers
Respond(c, r) ==
    /\ pc[c] = "awaiting"
    /\ Complete(c, ResponseEvent(r))

\* the HTTP client raises
ClientRaises(c, e) ==
    /\ pc[c] = "awaiting"
    /\ Complete(c, ExceptionEvent(e))

\* Cancel with one HTTP client shared by the calls: closing it for the
\* cancelled call aborts the requests of the others too
Cancel_AbortsAll(c) ==
    /\ pc[c] = "awaiting"
    /\ last' = [done     |-> TRUE,
                inv      |-> inv[c],
                endpoint |-> ToolArgs(inv[c]).endpoint,
                event    |-> ExceptionEvent(Cancellation),
                parsed   |-> FALSE,
                gw       |-> Raised(Cancellation),
                out      |-> Raised(Cancellation),
                sent     |-> wire[c]]
    /\ pc' = [d \in Calls |-> "idle"]
    /\ inv' = [d \in Calls |-> NoInvocation]
    /\ wire' = [d \in Calls |-> <<>>]
    /\ ctx' = {}
    /\ UNCHANGED <<rate_limiter, clock, answers, env, config, client, ncalls, nsent>>

\* the caller cancels the task
Cancel(c) ==
    /\ pc[c] = "awaiting"
    /\ Complete(c, ExceptionEvent(Cancellation))

\* a tool is invoked and raises before any await: the caller gets the
\* exception at once, no gateway call has started
Reject(i) ==
    /\ config.ok
    /\ ToolStart(i).kind = "raise"
    /\ last' = [done     |-> TRUE,
                inv      |-> i,
                endpoint |-> None,
                event    |-> [kind |-> "none"],
                parsed   |-> FALSE,
                gw       |-> [kind |-> "none"],
                out      |-> ToolStart(i),
                sent     |-> <<>>]
    /\ UNCHANGED <<rate_limiter, clock, answers, env, config, client, pc, inv, wire, ctx, ncalls, nsent>>

Next ==
    \/ \E c \in Calls, i \in Invocations : Invoke(c, i)
    \/ \E c \in Calls, r \in Responses : Respond(c, r)
    \/ \E c \in Calls, e \in ClientExceptions : ClientRaises(c, e)
    \/ \E c \in Calls : Cancel(c)

Spec == Init /\ [][Next]_vars


(***************************************************************************)
(* Vocabulary of the properties.  The gateway raises one exception class,  *)
(* ToolError; the class of a failure is told by the text it starts with.   *)
(***************************************************************************)
FailureClass(o) ==
    IF o.exc.cls # "ToolError" \/ o.exc.msg = <<>> THEN "Unclassified"
    ELSE CASE Head(o.exc.msg) = AuthFailedText   -> "AuthenticationFailure"
           [] Head(o.exc.msg) = ForbiddenText    -> "PermissionDenied"
           [] Head(o.exc.msg) = NotFoundText     -> "NotFound"
           [] Head(o.exc.msg) = RateLimitText    -> "RateLimited"
           [] Head(o.exc.msg) = ServerErrorText  -> "UpstreamServerError"
           [] Head(o.exc.msg) = TimedOutText     -> "Timeout"
           [] Head(o.exc.msg) = NetworkErrorText -> "NetworkError"
           [] Head(o.exc.msg) = UnexpectedText   -> "UnexpectedError"
           [] OTHER                              -> "Unclassified"

\* the last completed call ended with an HTTP response
GotResponse == last.done /\ last.event.kind = "response"

\* the last completed call ended with an exception of the awaited request
GotException == last.done /\ last.event.kind = "exception"

LastStatus == last.event.response.status

LastBody == last.event.response.body

\* the digits of the server-error statuses
StatusDigits(st) ==
    CASE st = 500 -> <<"5", "0", "0">>
      [] st = 503 -> <<"5", "0", "3">>

\* the value of a key of a decoded object
Member(obj, key) ==
    LET i == CHOOSE j \in 1..Len(obj.members) : obj.members[j].k = key
    IN  obj.members[i].v

HasMember(obj, key) ==
    obj.t = "object" /\ \E j \in 1..Len(obj.members) : obj.members[j].k = key

(***************************************************************************)
(* C1: a response with status 401, 403, 404, 429 or >= 500 makes the       *)
(* gateway call raise, returning no value, the failure of that status:     *)
(* authentication failure, permission denied, not found, rate limited,     *)
(* upstream server error; the 404 message contains the endpoint as the     *)
(* caller passed it, the >= 500 message contains the status number.        *)
(***************************************************************************)
C1_StatusFailures ==
    (GotResponse /\ (LastStatus \in {401, 403, 404, 429} \/ LastStatus >= 500)) =>
        /\ last.gw.kind = "raise"
        /\ FailureClass(last.gw) =
              (CASE LastStatus = 401 -> "AuthenticationFailure"
                 [] LastStatus = 403 -> "PermissionDenied"
                 [] LastStatus = 404 -> "NotFound"
                 [] LastStatus = 429 -> "RateLimited"
                 [] OTHER            -> "UpstreamServerError")
        /\ LastStatus = 404 => Contains(last.gw.exc.msg, last.endpoint)
        /\ LastStatus >= 500 => Contains(last.gw.exc.msg, StatusDigits(LastStatus))

C1_Witness ==
    /\ GotResponse
    /\ LastStatus = 404
    /\ last.endpoint = <<"/", "v1", "/", "leads", "/", "999">>
    /\ last.gw.kind = "raise"

C3_TimeoutFailure ==
    (GotException /\ IsInstance(last.event.exc.cls, "TimeoutException")) =>
        /\ last.gw.kind = "raise"
        /\ last.out.kind = "raise"
        /\ FailureClass(last.gw) = "Timeout"
        /\ config.timeout = 30 =>
              Contains(last.gw.exc.msg, <<TimedOutText, "3", "0">>)
        /\ config.timeout = 5 =>
              Contains(last.gw.exc.msg, <<TimedOutText, "5">>)

C3_Witness ==
    /\ GotException
    /\ last.event.exc.cls = "ReadTimeout"
    /\ config.timeout = 5
    /\ FailureClass(last.gw) = "Timeout"

(***************************************************************************)
(* C4: a transport failure other than a timeout (DNS, refused connection,  *)
(* reset) makes the gateway call raise NetworkError wrapping the message   *)
(* of the failure, never Timeout or UnexpectedError; a timeout is never    *)
(* raised as NetworkError.                                                 *)
(***************************************************************************)
C4_NetworkFailure ==
    GotException =>
        /\ (/\ IsInstance(last.event.exc.cls, "RequestError")
            /\ ~IsInstance(last.event.exc.cls, "TimeoutException")) =>
              /\ last.gw.kind = "raise"
              /\ FailureClass(last.gw) = "NetworkError"
              /\ last.gw.exc.msg = <<NetworkErrorText>> \o last.event.exc.msg
        /\ IsInstance(last.event.exc.cls, "TimeoutException") =>
              FailureClass(last.gw) # "NetworkError"

C4_Witness ==
    /\ GotException
    /\ last.event.exc = Exc("ConnectError", <<"[Errno 111] Connection refused">>)
    /\ FailureClass(last.gw) = "NetworkError"


(***************************************************************************)
(* C5: no raw exception crosses the gateway boundary.  As stated, for      *)
(* every abnormal end of a gateway call the caller sees one of the         *)
(* classified failures.                                                    *)
(***************************************************************************)
ClassifiedFailures ==
    {"AuthenticationFailure", "PermissionDenied", "NotFound", "RateLimited",
     "UpstreamServerError", "UpstreamError", "Timeout", "NetworkError",
     "UnexpectedError"}

EndedByBaseException ==
    GotException /\ ~IsInstance(last.event.exc.cls, "Exception")

C6_OtherStatusIsUpstreamError ==
    (GotResponse /\ ~IsSuccess(LastStatus) /\ LastStatus \notin {401, 403, 404, 429}
                 /\ LastStatus < 500) =>
        /\ last.gw.kind = "raise"
        /\ FailureClass(last.gw) \notin {"UnexpectedError", "NetworkError"}

(***************************************************************************)
(* C7: the status is checked before the body is parsed: for a status       *)
(* outside 2xx, whatever the body, response.json() is not reached and the  *)
(* failure raised is the one the status decides, never a parse error.      *)
(***************************************************************************)
C7_StatusBeforeParse ==
    (GotResponse /\ ~IsSuccess(LastStatus)) =>
        /\ ~last.parsed
        /\ last.gw.kind = "raise"
        /\ ~Contains(last.gw.exc.msg, ResponseJson(<<>>).exc.msg)
        /\ \A b \in OtherBodies :
              last.gw = RequestResult(client, last.endpoint,
                            ResponseEvent([status |-> LastStatus, body |-> b])).out

C7_Witness ==
    /\ GotResponse
    /\ LastStatus = 403
    /\ LastBody = <<"<html>">>
    /\ FailureClass(last.gw) = "PermissionDenied"
    /\ ~last.parsed

C9_OneRequestPerCall ==
    /\ \A c \in Calls : pc[c] = "awaiting" => Len(wire[c]) = 1
    /\ \A c \in Calls : pc[c] = "idle" => wire[c] = <<>>
    /\ last.done => Len(last.sent) = 1
    /\ nsent = ncalls

C9_Witness ==
    /\ last.done
    /\ last.gw.kind = "raise"
    /\ \E c \in Calls : pc[c] = "awaiting" /\ inv[c] = last.inv /\ wire[c] = last.sent
    /\ nsent = 2

(***************************************************************************)
(* C10: a failure raised by the gateway inside a tool reaches the caller   *)
(* of the tool unchanged, class and message; the tool neither returns a    *)
(* value in its place nor issues another request.                          *)
(***************************************************************************)
C10_FailurePropagates ==
    (last.done /\ last.gw.kind = "raise") =>
        /\ last.out = last.gw
        /\ Len(last.sent) = 1

C10_Witness ==
    /\ GotResponse
    /\ last.inv = [tool |-> "get_lead", lead_id |-> <<"999">>]
    /\ LastStatus = 401
    /\ last.out = Raised(ToolError(<<AuthFailedText>>))

(***************************************************************************)
(* C11: with any number of gateway calls in flight and any interleaving,   *)
(* a call that starts issues the request of its own arguments, and a call  *)
(* that ends gives its caller the outcome determined by its own arguments  *)
(* and its own response or exception; starting or ending a call leaves     *)
(* every other call in flight as it was.                                   *)
(***************************************************************************)
OthersUntouched(c) ==
    \A d \in Calls \ {c} :
        /\ pc'[d] = pc[d]
        /\ inv'[d] = inv[d]
        /\ wire'[d] = wire[d]
        /\ (d \in ctx') = (d \in ctx)

C11_NoCrossTalk ==
    [][ \A c \in Calls :
          /\ (pc[c] = "idle" /\ pc'[c] = "awaiting") =>
                LET own == ToolArgs(inv'[c])
                IN  /\ wire'[c] = <<HttpRequest(client, own.method, own.endpoint,
                                                own.params, own.json_data)>>
                    /\ OthersUntouched(c)
                    /\ last' = last
          /\ (pc[c] = "awaiting" /\ pc'[c] = "idle") =>
                LET own == ToolArgs(inv[c])
                    res == RequestResult(client, own.endpoint, last'.event).out
                IN  /\ last'.inv = inv[c]
                    /\ last'.sent = wire[c]
                    /\ last'.gw = res
                    /\ last'.out = res
                    /\ OthersUntouched(c) ]_vars

C11_Witness ==
    /\ GotResponse
    /\ LastStatus = 404
    /\ \E c \in Calls :
          /\ pc[c] = "awaiting"
          /\ inv[c] # last.inv
    /\ last.out = Raised(ToolError(<<NotFoundText>> \o ToolArgs(last.inv).endpoint))

(***************************************************************************)
(* C12: a gateway call opens an HTTP client context of its own when it     *)
(* starts and has left it when it returns or raises, whatever the exit:    *)
(* the contexts open are exactly those of the calls in flight, one each,   *)
(* and none is open once every call has completed.                         *)
(***************************************************************************)
InFlight == {c \in Calls : pc[c] = "awaiting"}

C12_ContextReleased ==
    /\ ctx = InFlight
    /\ Cardinality(ctx) = Cardinality(InFlight)
    /\ InFlight = {} => ctx = {}

C12_Witness ==
    /\ GotException
    /\ last.gw.kind = "raise"
    /\ ncalls = 2
    /\ InFlight = {}
    /\ ctx = {}

(***************************************************************************)
(* C13 as stated: a gateway call cancelled by its caller ends with the     *)
(* Timeout failure, as a call that exceeds the configured timeout does.    *)
(***************************************************************************)
Cancelled == GotException /\ last.event.exc = Cancellation

C14_ConfigurationUnchanged ==
    /\ config = MultileadConfig(env)
    /\ config.ok => client = MultileadClient(MultileadConfig(env))
    /\ ~config.ok => client = NoClient

C14_Witness ==
    /\ last.done
    /\ last.gw.kind = "raise"
    /\ ncalls = 2
    /\ InFlight # {}
    /\ config.base_url = <<"https://api.example.test", "/", "v1", "/">>
    /\ client.base_url = <<"https://api.example.test", "/", "v1">>
    /\ client.timeout = 5

(***************************************************************************)
(* C15: started without MULTILEAD_API_KEY, or with an empty one, the       *)
(* construction of the configuration fails with a configuration error:     *)
(* no client exists, no gateway call starts and no HTTP request is ever    *)
(* issued.  Hence a configuration that exists has a non-empty api_key, and *)
(* every request of a gateway call carries a non-empty key.                *)
(***************************************************************************)
EnvKey == Getenv(env, "MULTILEAD_API_KEY", None)

C15_NoKeyNoStart ==
    /\ (EnvKey = None \/ EnvKey = <<>>) =>
            /\ ~config.ok
            /\ config.error = "ValueError"
            /\ client = NoClient
            /\ ncalls = 0
            /\ nsent = 0
            /\ InFlight = {}
            /\ ~last.done
    /\ config.ok => (config.api_key # None /\ Len(config.api_key) > 0)
    /\ (ncalls > 0 \/ nsent > 0) => config.ok
    /\ \A c \in InFlight : \A k \in 1..Len(wire[c]) :
            /\ wire[c][k].headers.Authorization # None
            /\ Len(wire[c][k].headers.Authorization) > 0

C15_Witness ==
    /\ EnvKey = <<>>
    /\ ~config.ok
    /\ client = NoClient
    /\ nsent = 0

(***************************************************************************)
(* C16: every HTTP request the gateway issues, whatever the tool, method,  *)
(* path, parameters and body, carries the same three headers:              *)
(* Authorization with exactly the key of the environment, nothing before   *)
(* or after it, and Content-Type and Accept with application/json.         *)
(***************************************************************************)
FixedHeaders ==
    [Authorization |-> EnvKey,
     ContentType   |-> <<"application/json">>,
     Accept        |-> <<"application/json">>]

C16_FixedHeaders ==
    /\ \A c \in InFlight : \A k \in 1..Len(wire[c]) : wire[c][k].headers = FixedHeaders
    /\ last.done => \A k \in 1..Len(last.sent) : last.sent[k].headers = FixedHeaders

C16_Witness ==
    /\ InFlight = Calls
    /\ \E c, d \in Calls :
          /\ wire[c][1].method = "GET"
          /\ wire[d][1].method = "DELETE"
          /\ wire[c][1].url # wire[d][1].url
          /\ wire[c][1].headers = wire[d][1].headers
          /\ wire[c][1].headers.Authorization = TestApiKey

(***************************************************************************)
(* The join of base URL and endpoint, exercised on its own: the server is  *)
(* started with a base URL that ends with zero or more slashes, and        *)
(* callers of the gateway pass endpoints that begin with zero or more.     *)
(***************************************************************************)
MaxSlashes == 2

Slashes(n) == [k \in 1..n |-> "/"]

\* base URLs without their trailing slashes
JoinRoots ==
    { <<"https://api.multilead.co">>,
      <<"https://api.example.test", "/", "v1">> }

\* endpoints without their leading slashes
JoinTails ==
    { <<"x">>,
      <<"v1", "/", "leads", "/", "999">> }

JoinEnvs ==
    { [n \in {"MULTILEAD_API_KEY", "MULTILEAD_BASE_URL"} |->
          IF n = "MULTILEAD_API_KEY" THEN TestApiKey ELSE root \o Slashes(m)] :
      root \in JoinRoots, m \in 0..MaxSlashes }

JoinInvocations ==
    { [tool |-> "request", method |-> "GET", endpoint |-> Slashes(n) \o tail] :
      tail \in JoinTails, n \in 0..MaxSlashes }

JoinResponses ==
    { [status |-> 200, body |-> <<"{", "}">>],
      [status |-> 404, body |-> <<>>] }

InitJoin ==
    /\ env \in JoinEnvs
    /\ Start
    /\ DefaultLimiter

NextJoin ==
    \/ \E c \in Calls, i \in JoinInvocations : Invoke(c, i)
    \/ \E c \in Calls, r \in JoinResponses : Respond(c, r)

SpecJoin == InitJoin /\ [][NextJoin]_vars

(***************************************************************************)
(* C17: the URL of a request is the base URL, the endpoint and exactly one *)
(* slash between them, however many slashes the base URL ends with and the *)
(* endpoint begins with; so join(base, "/x"), join(base + "/", "x") and    *)
(* join(base, "x") are one URL.                                            *)
(***************************************************************************)
\* the URL a server configured with base requests for endpoint
Join(base, endpoint) ==
    RequestUrl(MultileadClient([ok |-> TRUE, api_key |-> TestApiKey, base_url |-> base,
                                timeout |-> 30, debug |-> FALSE]),
               endpoint)

\* the URLs of the requests of slot c, or of the last completed call
JoinedAsExpected(endpoint, reqs) ==
    \A root \in JoinRoots, tail \in JoinTails, m, n \in 0..MaxSlashes :
        (config.base_url = root \o Slashes(m) /\ endpoint = Slashes(n) \o tail) =>
            \A k \in 1..Len(reqs) : reqs[k].url = root \o <<"/">> \o tail

C17_OneSeparatingSlash ==
    /\ \A c \in InFlight : JoinedAsExpected(inv[c].endpoint, wire[c])
    /\ last.done => JoinedAsExpected(last.inv.endpoint, last.sent)
    /\ \A root \in JoinRoots :
          /\ Join(root, <<"/", "x">>) = Join(root \o <<"/">>, <<"x">>)
          /\ Join(root, <<"/", "x">>) = Join(root, <<"x">>)
          /\ Join(root, <<"x">>) = root \o <<"/", "x">>

C17_Witness ==
    /\ config.base_url = <<"https://api.example.test", "/", "v1", "/", "/">>
    /\ last.done
    /\ last.inv.endpoint = <<"/", "/", "x">>
    /\ last.sent[1].url = <<"https://api.example.test", "/", "v1", "/", "x">>
    /\ \E c \in InFlight :
          /\ inv[c].endpoint = <<"x">>
          /\ wire[c][1].url = last.sent[1].url

(***************************************************************************)
(* The tools that check their arguments, invoked one at a time.            *)
(***************************************************************************)
\* values of an optional str argument: None, the empty string, a text
OptionalStr(text) == {PyNone, JStr(<<>>), JStr(text)}

AddLeadsInvocations ==
    { [tool          |-> "add_leads_to_campaign",
       campaign_id   |-> id,
       profile_url   |-> p,
       email         |-> e,
       custom_fields |-> cf] :
      id \in {<<"12345">>, <<"7">>},
      p \in OptionalStr(<<"https://www.linkedin.com", "/", "in", "/", "jane">>),
      e \in OptionalStr(<<"lead@example.com">>),
      cf \in {PyNone, JObject(<<[k |-> "first_name", v |-> JStr(<<"John">>)]>>)} }

\* first_name, last_name, company, title and phone: all left out, or all given
OtherFields ==
    { [first_name |-> PyNone, last_name |-> PyNone, company |-> PyNone,
       title |-> PyNone, phone |-> PyNone],
      [first_name |-> JStr(<<"Jane">>), last_name |-> JStr(<<"Doe">>),
       company |-> JStr(<<"Acme">>), title |-> JStr(<<"CTO">>),
       phone |-> JStr(<<"+1 555 0100">>)] }

UpdateLeadInvocations ==
    { [tool          |-> "update_lead",
       lead_id       |-> <<"999">>,
       email         |-> e,
       first_name    |-> o.first_name,
       last_name     |-> o.last_name,
       company       |-> o.company,
       title         |-> o.title,
       phone         |-> o.phone,
       tags          |-> t,
       custom_fields |-> cf] :
      e \in OptionalStr(<<"new@example.com">>),
      o \in OtherFields,
      t \in {PyNone, JArray(<<>>), JArray(<<JStr(<<"vip">>)>>)},
      cf \in {PyNone, JObject(<<>>)} }

KeywordInvocations ==
    { [tool |-> "add_keywords_to_global_blacklist", team_id |-> <<"1">>,
       user_id |-> <<"2">>, keywords |-> JArray(<<JStr(<<"test">>)>>),
       keyword_type |-> JStr(<<"email">>), comparison_type |-> JStr(<<"exact">>)],
      [tool |-> "add_keywords_to_blacklist", user_id |-> <<"2">>,
       account_id |-> <<"3">>, keywords |-> JArray(<<JStr(<<"John Smith">>)>>),
       keyword_type |-> JStr(<<"full_name">>), comparison_type |-> JStr(<<"contains">>)] }

ImportInvocations ==
    { [tool |-> "import_keywords_to_global_blacklist_csv", team_id |-> <<"1">>,
       user_id |-> <<"2">>, csv_file_path |-> path,
       keyword_type |-> JStr(<<"email">>), comparison_type |-> cmp] :
      path \in {<<>>, <<"/", "tmp", "/", "keywords.csv">>},
      cmp \in {JStr(<<"exact">>), JStr(<<"no such comparison">>)} }
    \cup
    { [tool |-> "import_keywords_to_blacklist_csv", user_id |-> <<"2">>,
       account_id |-> <<"3">>, csv_file_path |-> path,
       keyword_type |-> JStr(<<"email">>), comparison_type |-> cmp] :
      path \in {<<>>, <<"/", "tmp", "/", "keywords.csv">>},
      cmp \in {JStr(<<"exact">>), JStr(<<"no such comparison">>)} }

ToolInvocations ==
    AddLeadsInvocations \cup UpdateLeadInvocations \cup KeywordInvocations
        \cup ImportInvocations

ToolResponses ==
    { [status |-> 200, body |-> <<"{", "\"id\"", ":", "\"42\"", "}">>],
      [status |-> 404, body |-> <<>>] }

ToolExceptions == { Exc("ReadTimeout", <<>>) }

\* the slot the tools run in
ToolSlot == 1

InitTools ==
    /\ env = [n \in {"MULTILEAD_API_KEY"} |-> TestApiKey]
    /\ Start
    /\ DefaultLimiter

NextTools ==
    \/ \E i \in ToolInvocations : Invoke(ToolSlot, i)
    \/ \E i \in ToolInvocations : Reject(i)
    \/ \E r \in ToolResponses : Respond(ToolSlot, r)
    \/ \E e \in ToolExceptions : ClientRaises(ToolSlot, e)

SpecTools == InitTools /\ [][NextTools]_vars

(***************************************************************************)
(* C18: add_leads_to_campaign invoked with neither profile_url nor email   *)
(* set (None or empty), whatever campaign_id and custom_fields are, raises *)
(* its validation failure before any HTTP call: the invocation issues no   *)
(* request, and no gateway call is ever in flight for it.                  *)
(***************************************************************************)
NotSet(x) == x = PyNone \/ x = JStr(<<>>)

NeitherSet(i) ==
    /\ i.tool = "add_leads_to_campaign"
    /\ NotSet(i.profile_url)
    /\ NotSet(i.email)

C18_NeitherSetNoRequest ==
    /\ (last.done /\ NeitherSet(last.inv)) =>
            /\ last.out = Raised(ToolError(<<ProfileOrEmailText>>))
            /\ last.sent = <<>>
            /\ last.event.kind = "none"
    /\ \A c \in InFlight : ~NeitherSet(inv[c])
    /\ nsent = ncalls

C18_Witness ==
    /\ last.done
    /\ NeitherSet(last.inv)
    /\ last.inv.campaign_id = <<"7">>
    /\ last.inv.profile_url = JStr(<<>>)
    /\ last.inv.email = PyNone
    /\ last.inv.custom_fields # PyNone
    /\ last.out = Raised(ToolError(<<ProfileOrEmailText>>))
    /\ nsent = 0

(***************************************************************************)
(* C19: update_lead invoked with every one of email, first_name,           *)
(* last_name, company, title, phone, tags and custom_fields absent raises  *)
(* its validation failure and issues no HTTP request; invoked with at      *)
(* least one of them present (an empty string, list or dict is present) it *)
(* issues exactly one request, a PUT, whose body has exactly the present   *)
(* fields with the values given.                                           *)
(***************************************************************************)
UpdateFields ==
    {"email", "first_name", "last_name", "company", "title", "phone", "tags",
     "custom_fields"}

Present(i) == {f \in UpdateFields : i[f] # PyNone}

\* reqs is one PUT whose body is the present fields of invocation i
OnePutOfPresent(i, reqs) ==
    /\ Len(reqs) = 1
    /\ reqs[1].method = "PUT"
    /\ reqs[1].json.t = "object"
    /\ {reqs[1].json.members[k].k : k \in 1..Len(reqs[1].json.members)} = Present(i)
    /\ Len(reqs[1].json.members) = Cardinality(Present(i))
    /\ \A f \in Present(i) : Member(reqs[1].json, f) = i[f]

C19_UpdateLead ==
    /\ (last.done /\ last.inv.tool = "update_lead") =>
            IF Present(last.inv) = {}
            THEN /\ last.out = Raised(ToolError(<<NoFieldText>>))
                 /\ last.sent = <<>>
                 /\ last.event.kind = "none"
            ELSE /\ last.event.kind # "none"
                 /\ OnePutOfPresent(last.inv, last.sent)
    /\ \A c \in InFlight :
            inv[c].tool = "update_lead" =>
                /\ Present(inv[c]) # {}
                /\ OnePutOfPresent(inv[c], wire[c])
    /\ nsent = ncalls

\* no field given: the validation failure
C19_Witness ==
    /\ last.done
    /\ last.inv.tool = "update_lead"
    /\ Present(last.inv) = {}
    /\ last.out = Raised(ToolError(<<NoFieldText>>))
    /\ last.sent = <<>>
    /\ \E c \in InFlight :
          /\ inv[c].tool = "update_lead"
          /\ Present(inv[c]) = {"email", "tags"}
          /\ inv[c].email = JStr(<<>>)
          /\ inv[c].tags = JArray(<<>>)
          /\ wire[c][1].json = JObject(<< [k |-> "email", v |-> JStr(<<>>)],
                                          [k |-> "tags", v |-> JArray(<<>>)] >>)

(***************************************************************************)
(* C20: import_keywords_to_global_blacklist_csv and                        *)
(* import_keywords_to_blacklist_csv fail on every invocation, whatever the *)
(* arguments, each with one fixed message that names the tool taking a     *)
(* list of keywords in its place (add_keywords_to_global_blacklist,        *)
(* add_keywords_to_blacklist), and never issue an HTTP request.            *)
(***************************************************************************)
ImportTools ==
    {"import_keywords_to_global_blacklist_csv", "import_keywords_to_blacklist_csv"}

\* the tool that takes the keywords as a list
ListBasedTool(tool) ==
    IF tool = "import_keywords_to_global_blacklist_csv"
    THEN "add_keywords_to_global_blacklist"
    ELSE "add_keywords_to_blacklist"

CreateLeadInvocations ==
    { [tool          |-> "create_lead",
       email         |-> JStr(<<"a@b.com">>),
       first_name    |-> o.first_name,
       last_name     |-> o.last_name,
       company       |-> o.company,
       title         |-> o.title,
       phone         |-> o.phone,
       tags          |-> t,
       custom_fields |-> cf] :
      o \in OtherFields,
      t \in {PyNone, JArray(<<>>), JArray(<<JStr(<<"vip">>)>>)},
      cf \in {PyNone, JObject(<<>>), JObject(<<[k |-> "source", v |-> JStr(<<"web">>)]>>)} }

RegisterInvocations ==
    { [tool                    |-> "register_new_user",
       email                   |-> JStr(<<"a@b.com">>),
       password                |-> JStr(<<"s3cret">>),
       full_name               |-> JStr(<<"Jane Doe">>),
       whitelabel_id           |-> JNum(7),
       phone                   |-> p,
       invitation_id           |-> inv_id,
       skip_confirmation_email |-> skip] :
      p \in {PyNone, JStr(<<"+3816423416">>)},
      inv_id \in {PyNone, JStr(<<"inv-1">>)},
      skip \in {PyNone, JBool(FALSE), JBool(TRUE)} }

ListLeadsInvocations ==
    { [tool           |-> "list_leads",
       tags           |-> t,
       company        |-> c,
       created_after  |-> PyNone,
       created_before |-> PyNone,
       limit          |-> JNum(100),
       offset         |-> JNum(0)] :
      t \in {PyNone, JArray(<<>>), JArray(<<JStr(<<"vip">>)>>),
             JArray(<<JStr(<<"vip">>), JStr(<<"new">>)>>)},
      c \in {PyNone, JStr(<<"Acme">>)} }

\* the filters of get_leads_from_campaign other than filter_by_status: all
\* left out, or all given
OtherFilters ==
    { [search |-> PyNone, verified |-> PyNone, not_verified |-> PyNone,
       degree |-> PyNone, step |-> PyNone, name |-> PyNone, company |-> PyNone,
       occupation |-> PyNone, headline |-> PyNone, out_of_office |-> PyNone,
       timestamp |-> PyNone, selected |-> PyNone],
      [search |-> JStr(<<"jane">>), verified |-> JBool(TRUE),
       not_verified |-> JBool(FALSE), degree |-> JArray(<<JNum(1)>>),
       step |-> JArray(<<JNum(2), JNum(5)>>), name |-> JStr(<<"Jane">>),
       company |-> JStr(<<"Acme">>), occupation |-> JStr(<<"CTO">>),
       headline |-> JStr(<<"Founder">>), out_of_office |-> JBool(FALSE),
       timestamp |-> JNum(1700000000), selected |-> JArray(<<JNum(10), JNum(20)>>)] }

CampaignLeadsInvocations ==
    { [tool                            |-> "get_leads_from_campaign",
       user_id                         |-> <<"123">>,
       account_id                      |-> <<"456">>,
       campaign_id                     |-> <<"789">>,
       search                          |-> o.search,
       filter_by_verified_emails       |-> o.verified,
       filter_by_not_verified_emails   |-> o.not_verified,
       filter_by_status                |-> st,
       filter_by_connection_degree     |-> o.degree,
       filter_by_current_step          |-> o.step,
       filter_by_name                  |-> o.name,
       filter_by_company               |-> o.company,
       filter_by_occupation            |-> o.occupation,
       filter_by_headline              |-> o.headline,
       filter_by_out_of_office         |-> o.out_of_office,
       filter_by_step_change_timestamp |-> o.timestamp,
       filter_by_selected_leads        |-> o.selected,
       limit                           |-> JNum(30),
       offset                          |-> JNum(0)] :
      st \in {PyNone, JArray(<<>>), JArray(<<JNum(4)>>),
              JArray(<<JNum(1), JNum(2), JNum(3)>>)},
      o \in OtherFilters }

StatisticsInvocations ==
    { [tool           |-> "get_statistics",
       user_id        |-> <<"123">>,
       account_id     |-> <<"456">>,
       from_timestamp |-> JNum(1700000000),
       to_timestamp   |-> JNum(1700086400),
       curves         |-> cv,
       time_zone      |-> JStr(<<"Europe", "/", "Belgrade">>),
       campaign_id    |-> cid] :
      cv \in {JArray(<<JNum(3)>>), JArray(<<JNum(1), JNum(2), JNum(3)>>)},
      cid \in {PyNone, JNum(789)} }

ThreadInvocations ==
    { [tool                            |-> "get_messages_from_a_specific_thread",
       user_id                         |-> <<"123">>,
       account_id                      |-> <<"456">>,
       threads                         |-> th,
       filter_by_step_change_timestamp |-> ts] :
      th \in {JArray(<<>>), JArray(<<JStr(<<"t1">>)>>),
              JArray(<<JStr(<<"t1">>), JStr(<<"t2">>)>>)},
      ts \in {PyNone, JStr(<<"2024-01-01T00:00:00Z">>)} }

ArgInvocations ==
    CreateLeadInvocations \cup RegisterInvocations \cup ListLeadsInvocations
        \cup CampaignLeadsInvocations \cup StatisticsInvocations \cup ThreadInvocations

NextArgs ==
    \/ \E i \in ArgInvocations : Invoke(ToolSlot, i)
    \/ \E r \in ToolResponses : Respond(ToolSlot, r)
    \/ \E e \in ToolExceptions : ClientRaises(ToolSlot, e)

SpecArgs == InitTools /\ [][NextArgs]_vars

(***************************************************************************)
(* C21: an optional argument of a tool that is absent (None) contributes   *)
(* no key to the JSON body handed to the gateway: it is not sent as null   *)
(* and not replaced by a default value; create_lead invoked with email     *)
(* alone sends a body whose only key is email.                             *)
(***************************************************************************)
\* the optional arguments of a tool and the body key each is sent under
OptionalKeys(tool) ==
    IF tool = "create_lead"
    THEN [p \in {"first_name", "last_name", "company", "title", "phone", "tags",
                 "custom_fields"} |-> p]
    ELSE [p \in {"phone", "invitation_id", "skip_confirmation_email"} |->
             CASE p = "phone"         -> "phone"
               [] p = "invitation_id" -> "invitationId"
               [] OTHER               -> "skipConfirmationEmail"]

AbsentOmitted(i, reqs) ==
    \A k \in 1..Len(reqs) :
        \A p \in DOMAIN OptionalKeys(i.tool) :
            i[p] = PyNone => ~HasMember(reqs[k].json, OptionalKeys(i.tool)[p])

C21_AbsentOmitted ==
    /\ \A c \in InFlight :
          inv[c].tool \in {"create_lead", "register_new_user"} =>
              AbsentOmitted(inv[c], wire[c])
    /\ (last.done /\ last.inv.tool \in {"create_lead", "register_new_user"}) =>
          AbsentOmitted(last.inv, last.sent)

(***************************************************************************)
(* C22: a tool that takes a list-valued query filter hands it to the       *)
(* gateway as one string in the bracketed comma-joined form, [1,2,3]: no   *)
(* query parameter is a list, and every list filter that is given is sent  *)
(* under its key as "[" + the items joined with "," + "]".                 *)
(***************************************************************************)
\* the list-valued filters of a tool and the query key each is sent under
ListFilterKeys(tool) ==
    CASE tool = "list_leads" -> [p \in {"tags"} |-> "tags"]
      [] tool = "get_statistics" -> [p \in {"curves"} |-> "curves"]
      [] tool = "get_messages_from_a_specific_thread" -> [p \in {"threads"} |-> "threads"]
      [] tool = "get_leads_from_campaign" ->
            [p \in {"filter_by_status", "filter_by_connection_degree",
                    "filter_by_current_step", "filter_by_selected_leads"} |->
                CASE p = "filter_by_status"            -> "filterByStatus"
                  [] p = "filter_by_connection_degree" -> "filterByConnectionDegree"
                  [] p = "filter_by_current_step"      -> "filterByCurrentStep"
                  [] OTHER                             -> "filterBySelectedLeads"]
      [] OTHER -> [p \in {} |-> ""]

\* the bracketed comma-joined form of a list of int or str
Bracketed(xs) ==
    <<"[">> \o StrJoin(<<",">>, [k \in 1..Len(xs.items) |->
                                   IF xs.items[k].t = "number"
                                   THEN IntToStr(xs.items[k].n)
                                   ELSE xs.items[k].s])
        \o <<"]">>

ListFiltersBracketed(i, reqs) ==
    \A k \in 1..Len(reqs) :
        reqs[k].params.t = "object" =>
            /\ \A m \in 1..Len(reqs[k].params.members) :
                    reqs[k].params.members[m].v.t # "array"
            /\ \A p \in DOMAIN ListFilterKeys(i.tool) :
                    (i[p].t = "array" /\ i[p].items # <<>>) =>
                        /\ HasMember(reqs[k].params, ListFilterKeys(i.tool)[p])
                        /\ Member(reqs[k].params, ListFilterKeys(i.tool)[p])
                               = JStr(Bracketed(i[p]))

C22_ListFiltersBracketed ==
    /\ \A c \in InFlight : ListFiltersBracketed(inv[c], wire[c])
    /\ last.done => ListFiltersBracketed(last.inv, last.sent)

(***************************************************************************)
(* Resources.  multilead://config renders the configuration as text; the   *)
(* key is modelled character by character, so the text contains the key    *)
(* exactly when the characters of the key occur in it in a row.            *)
(***************************************************************************)
\* s[:n]
Take(s, n) == SubSeq(s, 1, IF Len(s) < n THEN Len(s) ELSE n)

\* config_info of get_server_config
ConfigInfo(cfg) ==
    [server_name        |-> <<"Multilead Open API">>,
     version            |-> <<"1.0.0">>,
     base_url           |-> cfg.base_url,
     timeout_seconds    |-> cfg.timeout,
     debug_mode         |-> cfg.debug,
     api_key_configured |-> Truthy(cfg.api_key),
     api_key_prefix     |-> IF Truthy(cfg.api_key)
                            THEN Take(cfg.api_key, 8) \o <<"...">>
                            ELSE <<"NOT_SET">>]

\* the last part of the text of get_server_config, from the list of tool
\* categories on
ConfigTextTail(base_url) ==
    <<"\n\n## Available Tool Categories (76 tools)\n\n",
      "1. **Lead Management** (14 tools) - Add leads, pause/resume, tags, campaigns\n",
      "2. **Campaign Management** (6 tools) - Create, export, campaign info\n",
      "3. **Users & Seats** (15 tools) - User management, seat provisioning\n",
      "4. **Conversations** (12 tools) - Email and LinkedIn threads\n",
      "5. **Webhooks** (6 tools) - Event subscriptions\n",
      "6. **Seats** (3 tools) - Tags, LinkedIn connect/disconnect\n",
      "7. **Statistics** (4 tools) - Campaign stats, CSV export\n",
      "8. **Blacklist** (4 tools) - Keyword blacklists\n",
      "9. **Warmup** (1 tool) - InboxFlare warmup\n",
      "10. **Team Management** (6 tools) - Teams, roles, members\n",
      "11. **Settings** (1 tool) - Identity type resolution\n\n",
      "## Getting Started\n\nTo use this server, ensure you have:\n",
      "1. A valid Multilead API key set as MULTILEAD_API_KEY in your .env\n",
      "2. Network access to ">>
        \o base_url
        \o <<"\n\nFor full API documentation, visit: https://docs.multilead.co/api-reference\n">>

\* get_server_config: config_info rendered by the f-string
get_server_config(cfg) ==
    LET info == ConfigInfo(cfg)
        bool(b) == IF b THEN <<"True">> ELSE <<"False">>
    IN  Text(<<"# Multilead MCP Server Configuration\n\n**Server Name:** ">>
             \o info.server_name
             \o <<"\n**Version:** ">> \o info.version
             \o <<"\n**API Base URL:** ">> \o info.base_url
             \o <<"\n**Timeout:** ">> \o IntToStr(info.timeout_seconds) \o <<" seconds">>
             \o <<"\n**Debug Mode:** ">> \o bool(info.debug_mode)
             \o <<"\n**API Key Status:** ">>
             \o (IF info.api_key_configured THEN <<"Configured">> ELSE <<"NOT CONFIGURED">>)
             \o <<"\n**API Key Prefix:** ">> \o info.api_key_prefix
             \o <<"\n\n## Environment Variables\n- MULTILEAD_API_KEY: ">>
             \o (IF info.api_key_configured THEN <<"Set">> ELSE <<"NOT SET">>)
             \o <<"\n- MULTILEAD_BASE_URL: ">> \o info.base_url
             \o <<"\n- MULTILEAD_TIMEOUT: ">> \o IntToStr(info.timeout_seconds)
             \o <<"\n- MULTILEAD_DEBUG: ">> \o bool(info.debug_mode)
             \o ConfigTextTail(info.base_url))

\* the longest key the server is started with
MaxKeyLen == 9

\* the texts MULTILEAD_TIMEOUT is set to
TimeoutSettings == { <<"5">>, <<"0">>, <<"-", "5">>, <<"3", "0", "s">> }

\* environments with a key of 1..MaxKeyLen characters, a base URL with or
\* without trailing slashes, and MULTILEAD_TIMEOUT unset or set
ConfigEnvs ==
    { [n \in {"MULTILEAD_API_KEY", "MULTILEAD_BASE_URL"} |->
          IF n = "MULTILEAD_API_KEY" THEN Take(TestApiKey, len) ELSE root \o Slashes(m)] :
      len \in 1..MaxKeyLen, root \in JoinRoots, m \in 0..MaxSlashes }
    \cup
    { [n \in {"MULTILEAD_API_KEY", "MULTILEAD_TIMEOUT"} |->
          IF n = "MULTILEAD_API_KEY" THEN Take(TestApiKey, len) ELSE t] :
      len \in {MaxKeyLen}, t \in TimeoutSettings }

\* multilead://config is read
ReadConfig ==
    /\ config.ok
    /\ last' = [done     |-> TRUE,
                inv      |-> [tool |-> "multilead://config"],
                endpoint |-> None,
                event    |-> [kind |-> "none"],
                parsed   |-> FALSE,
                gw       |-> [kind |-> "none"],
                out      |-> Returned(get_server_config(config)),
                sent     |-> <<>>]
    /\ UNCHANGED <<rate_limiter, clock, answers, env, config, client, pc, inv, wire, ctx, ncalls, nsent>>

\* what the upstream API answers to GET /v1/account/stats
StatsResponses ==
    { [status |-> 200, body |-> <<"{", "\"id\"", ":", "\"42\"", "}">>],
      [status |-> 200, body |-> <<"[", "1", ",", "2", "]">>],
      [status |-> 204, body |-> <<>>],
      [status |-> 200, body |-> <<>>],
      [status |-> 400, body |-> <<>>] }
    \cup [status : {401, 403, 404, 429, 500, 503}, body : {<<>>}]

\* multilead://stats is read: get_api_stats runs up to its await of the gateway
ReadStats == Invoke(ToolSlot, [tool |-> "multilead://stats"])

InitResources ==
    /\ env \in ConfigEnvs
    /\ Start
    /\ DefaultLimiter

NextResources ==
    \/ ReadConfig
    \/ ReadStats
    \/ \E r \in StatsResponses : Respond(ToolSlot, r)
    \/ \E e \in ClientExceptions : ClientRaises(ToolSlot, e)
    \/ Cancel(ToolSlot)

SpecResources == InitResources /\ [][NextResources]_vars

(***************************************************************************)
(* C23: the text of multilead://config never exposes the API key: for      *)
(* every non-empty configured key, of any length, the text does not        *)
(* contain the key.                                                        *)
(***************************************************************************)
ConfigWasRead == last.done /\ last.inv.tool = "multilead://config"

C23_KeyNotInConfigText ==
    ConfigWasRead => ~Contains(last.out.value.s, config.api_key)

(***************************************************************************)
(* C24: reading multilead://stats never fails because of a failure of the  *)
(* gateway: when the gateway call raises one of its failures (each status  *)
(* failure, timeout, network error, unexpected error) the resource returns *)
(* a non-empty text that reports the error, the message of the failure     *)
(* included, instead of raising.                                           *)
(***************************************************************************)
StatsWasRead == last.done /\ last.inv.tool = "multilead://stats"

C24_StatsReportsFailure ==
    (StatsWasRead /\ last.gw.kind = "raise" /\ last.gw.exc.cls = "ToolError") =>
        /\ FailureClass(last.gw) \in ClassifiedFailures
        /\ last.out.kind = "return"
        /\ last.out.value.t = "text"
        /\ last.out.value.s # <<>>
        /\ last.out.value.s = <<StatsErrorText>> \o last.gw.exc.msg

C24_Witness ==
    /\ StatsWasRead
    /\ GotResponse
    /\ LastStatus = 401
    /\ last.out = Returned(Text(<<StatsErrorText, AuthFailedText>>))

(***************************************************************************)
(* C25: the server retries: when the HTTP request of a tool call ends with *)
(* a retryable outcome (status 429 or 5xx, a timeout, a network error),    *)
(* the call has issued at least one further request by the time its        *)
(* failure reaches the caller.                                             *)
(***************************************************************************)
RetryableOutcome ==
    \/ GotResponse /\ (LastStatus = 429 \/ LastStatus >= 500)
    \/ GotException /\ IsInstance(last.event.exc.cls, "RequestError")

C25_RetriesBeforeFailure ==
    (RetryableOutcome /\ last.out.kind = "raise") => Len(last.sent) >= 2

(***************************************************************************)
(* C26: every configuration that construction returns has a timeout that   *)
(* is a positive integer, whatever MULTILEAD_TIMEOUT is set to, and so has *)
(* every request of the gateway.                                           *)
(***************************************************************************)
C26_TimeoutPositive ==
    /\ config.ok => config.timeout > 0
    /\ \A c \in InFlight : \A k \in 1..Len(wire[c]) : wire[c][k].timeout > 0
    /\ last.done => \A k \in 1..Len(last.sent) : last.sent[k].timeout > 0

(***************************************************************************)
(* C27: the base_url read from the configuration has its trailing slash    *)
(* stripped, for every configured base URL: it does not end with a slash,  *)
(* and neither does the base URL shown by multilead://config.              *)
(***************************************************************************)
EndsWithSlash(s) == s # <<>> /\ s[Len(s)] = "/"

\* the text shows, after "API Base URL:", a URL that ends with a slash
ShownBaseUrlEndsWithSlash(text) ==
    \E k \in 1..(Len(text) - 1) : text[k] = "/" /\ text[k + 1] = "\n**Timeout:** "

C27_BaseUrlStripped ==
    /\ config.ok => ~EndsWithSlash(config.base_url)
    /\ ConfigWasRead => ~ShownBaseUrlEndsWithSlash(last.out.value.s)

(***************************************************************************)
(* C28: a response with a 2xx status other than 204 whose body is not      *)
(* valid JSON, an empty body included, makes the gateway call raise the    *)
(* UnexpectedError failure that wraps the message of the parse error: the  *)
(* call returns no value and the parse exception does not escape as it is. *)
(***************************************************************************)
UnparsableSuccess ==
    /\ GotResponse
    /\ IsSuccess(LastStatus)
    /\ LastStatus # 204
    /\ ~JsonDecode(LastBody).ok

C28_UnparsableBodyIsUnexpected ==
    UnparsableSuccess =>
        /\ last.parsed
        /\ last.out.kind = "raise"
        /\ last.out.exc.cls = "ToolError"
        /\ FailureClass(last.out) = "UnexpectedError"
        /\ last.out.exc.msg = <<UnexpectedText>> \o ResponseJson(LastBody).exc.msg

C28_Witness ==
    /\ UnparsableSuccess
    /\ LastStatus = 201
    /\ LastBody = <<>>
    /\ FailureClass(last.out) = "UnexpectedError"

(***************************************************************************)
(* The rate limiter on its own: a limiter built with small limits is asked *)
(* about the two identifiers in any order, at times that never go back.    *)
(***************************************************************************)
MaxChecks == 4

MaxLimit == 2

\* seconds between one call and the next; sums of them land on and next to
\* the edges of both windows
ClockSteps == {0, 1, 59, 3599}

\* one call of is_allowed
CheckRate(identifier, step) ==
    /\ Len(answers) < MaxChecks
    /\ LET now == clock + step
           r   == is_allowed(rate_limiter, identifier, now)
       IN  /\ rate_limiter' = r.self
           /\ clock' = now
           /\ answers' = Append(answers, [identifier |-> identifier,
                                          now        |-> now,
                                          allowed    |-> r.allowed,
                                          message    |-> r.message])
    /\ UNCHANGED <<env, config, client, pc, inv, wire, ctx, ncalls, nsent, last>>

InitLimiter ==
    /\ env = [n \in {"MULTILEAD_API_KEY"} |-> TestApiKey]
    /\ Start
    /\ \E m \in 0..MaxLimit, h \in 0..MaxLimit : rate_limiter = RateLimiter(m, h)

NextLimiter == \E identifier \in Identifiers, step \in ClockSteps : CheckRate(identifier, step)

SpecLimiter == InitLimiter /\ [][NextLimiter]_vars

\* the positions in answers of the calls made for an identifier
CallsOf(identifier) == { k \in DOMAIN answers : answers[k].identifier = identifier }

\* the calls answered 'allowed' for an identifier at a time in (t - width, t]
AllowedIn(identifier, t, width) ==
    { k \in CallsOf(identifier) :
        answers[k].allowed /\ t - width < answers[k].now /\ answers[k].now <= t }

\* the number of allowed calls in (t - width, t] grows, as t moves, only when
\* t reaches the time of a call: the windows that end at the time of a call,
\* and those that end a second before one starts to leave, are the fullest
WindowEnds == { answers[k].now : k \in DOMAIN answers } \cup { answers[k].now + 59 : k \in DOMAIN answers } \cup { answers[k].now + 3599 : k \in DOMAIN answers }

RECURSIVE Replay(_, _, _)
\* the answers a limiter gives when it is asked about one identifier only, at
\* the times listed
Replay(self, identifier, times) ==
    IF times = <<>> THEN <<>>
    ELSE LET r == is_allowed(self, identifier, Head(times))
         IN  <<[allowed |-> r.allowed, message |-> r.message]>> \o Replay(r.self, identifier, Tail(times))

\* answers restricted to one identifier
OwnAnswers(identifier) == SelectSeq(answers, LAMBDA a : a.identifier = identifier)

OwnTimes(identifier) == [k \in DOMAIN OwnAnswers(identifier) |-> OwnAnswers(identifier)[k].now]

Given(identifier) == [k \in DOMAIN OwnAnswers(identifier) |-> [allowed |-> OwnAnswers(identifier)[k].allowed, message |-> OwnAnswers(identifier)[k].message]]

FreshLimiter == RateLimiter(rate_limiter.requests_per_minute, rate_limiter.requests_per_hour)

(***************************************************************************)
(* C29: with calls of is_allowed made at times that never go back, for any *)
(* mix of identifiers, the calls answered 'allowed' for one identifier at  *)
(* times in a window (t - 60, t] are never more than requests_per_minute,  *)
(* those in a window (t - 3600, t] never more than requests_per_hour, and  *)
(* every identifier is given the answers it would be given if no other     *)
(* identifier had ever called.                                             *)
(***************************************************************************)
C29_WindowsBoundedAndIndependent ==
    \A identifier \in Identifiers :
        /\ \A t \in WindowEnds :
            /\ Cardinality(AllowedIn(identifier, t, 60)) <= rate_limiter.requests_per_minute
            /\ Cardinality(AllowedIn(identifier, t, 3600)) <= rate_limiter.requests_per_hour
        /\ Given(identifier) = Replay(FreshLimiter, identifier, OwnTimes(identifier))

\* one identifier has used up its minute and been denied, the other has
\* called in between and is allowed all the same; a later call of the first
\* is denied by the hour limit alone
C29_Witness ==
    /\ Len(answers) = 4
    /\ rate_limiter.requests_per_minute = 1
    /\ rate_limiter.requests_per_hour = 1
    /\ answers[1].identifier = "10.0.0.1" /\ answers[1].allowed
    /\ answers[2].identifier = "10.0.0.1" /\ ~answers[2].allowed
    /\ answers[2].message = <<"Rate limit exceeded: ", "1", " requests per minute">>
    /\ answers[3].identifier = "10.0.0.2" /\ answers[3].allowed
    /\ answers[4].identifier = "10.0.0.1" /\ ~answers[4].allowed
    /\ answers[4].message = <<"Rate limit exceeded: ", "1", " requests per hour">>


\* the calls answered 'allowed' for an identifier before call k
AllowedBefore(identifier, k) == { j \in CallsOf(identifier) : j < k /\ answers[j].allowed }

\* the time of the last of them
LastAllowed(identifier, k) == answers[CHOOSE j \in AllowedBefore(identifier, k) : \A i \in AllowedBefore(identifier, k) : i <= j].now

\* the calls answered 'denied' for an identifier between calls j and k
DeniedBetween(identifier, j, k) == { i \in CallsOf(identifier) : j < i /\ i < k /\ ~answers[i].allowed }

\* call k comes an hour or more after the last allowed call of its identifier
HourLater(k) ==
    /\ AllowedBefore(answers[k].identifier, k) # {}
    /\ answers[k].now - LastAllowed(answers[k].identifier, k) >= 3600

\* a bucket holds the times of the allowed calls that were inside its window
\* when the identifier called last, and no other time
OnlyAllowedRecorded(identifier, bucket, width) ==
    \/ CallsOf(identifier) = {} /\ bucket = <<>>
    \/ /\ CallsOf(identifier) # {}
       /\ LET t == OwnTimes(identifier)[Len(OwnTimes(identifier))]
              kept == AllowedIn(identifier, t, width)
          IN  /\ Len(bucket) = Cardinality(kept)
              /\ \A n \in DOMAIN bucket : \E k \in kept : bucket[n] = answers[k].now

(***************************************************************************)
(* C30: a denied call of is_allowed records no time in either bucket, and  *)
(* with both limits at least 1 a call made 3600 seconds or more after the  *)
(* last allowed call of its identifier is allowed, whatever number of      *)
(* denied calls came in between.                                           *)
(***************************************************************************)
C30_NeverBlockedForever ==
    /\ \A identifier \in Identifiers :
        /\ OnlyAllowedRecorded(identifier, rate_limiter.minute_buckets[identifier], 60)
        /\ OnlyAllowedRecorded(identifier, rate_limiter.hour_buckets[identifier], 3600)
    /\ (rate_limiter.requests_per_minute >= 1 /\ rate_limiter.requests_per_hour >= 1) =>
            \A k \in DOMAIN answers : HourLater(k) => answers[k].allowed

\* an identifier is allowed once, denied twice, and allowed again an hour
\* after the first call
C30_Witness ==
    /\ rate_limiter.requests_per_minute >= 1
    /\ rate_limiter.requests_per_hour >= 1
    /\ \E k \in DOMAIN answers :
        /\ HourLater(k)
        /\ answers[k].allowed
        /\ \E j \in AllowedBefore(answers[k].identifier, k) :
            /\ answers[j].now = LastAllowed(answers[k].identifier, k)
            /\ Cardinality(DeniedBetween(answers[k].identifier, j, k)) >= 2


====
